---- MODULE Spec2Model ----
(***************************************************************************)
(* Model of the pipeline steps ("blocks") of the autoclean task registry.  *)
(* Each block is a mixin method bound to a host Task object.  The state is *)
(* the host's attribute namespace, the run metadata, the set of files      *)
(* written so far and a record of the last step call.  One action models   *)
(* one whole call of one step; the behaviour of the wrapped libraries      *)
(* (which data they return, where they fail) is drawn with \E.             *)
(***************************************************************************)
EXTENDS Integers, Sequences, FiniteSets, TLC

VARIABLES host, metadata, files, call, pre, ncalls, alg

vars == <<host, metadata, files, call, pre, ncalls, alg>>

(***************************************************************************)
(* Bounds                                                                  *)
(***************************************************************************)
MaxEpochs == 3

(***************************************************************************)
(* Object tokens.  A host attribute is absent, None, or holds an object.   *)
(***************************************************************************)
Absent == "absent"
NoneV == "None"
Other == "Other"

IsBaseRaw(x) == x \in {"Raw", "RawArg", "RawClean", "SourceRaw"}
IsMneEpochs(x) == x \in {"Epochs", "EpochsArg", "EpochsClean"}
IsBaseEpochs(x) == IsMneEpochs(x) \/ x = "SourceEpochs"
IsSourceEstimate(x) == x \in {"STC", "STCArg", "StcPsd", "StcPsdArg"}
IsList(x) == x \in {"StcList", "StcListArg"}

\* variant: hasattr(self, a) alone, the "is not None" test forgotten
Present_hasattr_only(h, a) == h[a] # Absent

\* hasattr(self, a) and self.a is not None
Present(h, a) == h[a] # Absent /\ h[a] # NoneV

(***************************************************************************)
(* Exceptions                                                              *)
(***************************************************************************)
NoExc == "none"
LibError == "LibError"

(***************************************************************************)
(* Configuration values as returned by _check_step_enabled: a mapping with *)
(* top-level keys and, optionally, a nested mapping under "value".         *)
(***************************************************************************)
EmptyMap == [k \in {} |-> "cfg"]
AllCfg(keys) == [k \in keys |-> "cfg"]
Get(d, k, default) == IF k \in DOMAIN d THEN d[k] ELSE default

CfgEmpty == [top |-> EmptyMap, hasValue |-> FALSE, value |-> EmptyMap]
CfgFlat(keys) == [top |-> AllCfg(keys), hasValue |-> FALSE, value |-> EmptyMap]
CfgNested(keys) == [top |-> EmptyMap, hasValue |-> TRUE, value |-> AllCfg(keys)]

\* the configuration entries tried for a step with the given parameters
CfgChoices(params, one) ==
    {CfgEmpty, CfgFlat(params), CfgNested(params), CfgNested({one})}

\* bool(config_value): an empty dict is falsy
Truthy(cfg) == cfg.hasValue \/ DOMAIN cfg.top # {}

\* config_value.get(k, default): reads the top level of the mapping
merge_top(cfg, kw) ==
    IF Truthy(cfg) THEN [k \in DOMAIN kw |-> Get(cfg.top, k, kw[k])] ELSE kw

\* params = config_value.get("value", config_value); params.get(k, default)
merge_value(cfg, kw) ==
    IF Truthy(cfg)
    THEN LET params == IF cfg.hasValue THEN cfg.value ELSE cfg.top
         IN [k \in DOMAIN kw |-> Get(params, k, kw[k])]
    ELSE kw

(***************************************************************************)
(* Call records                                                            *)
(***************************************************************************)
NoArgs == [k \in {} |-> "caller"]

NoCall == [step |-> "none", enabled |-> FALSE, arg |-> NoneV, inst |-> NoneV,
           result |-> "none", exc |-> NoExc, cause |-> NoExc, embeds |-> FALSE,
           ret |-> <<>>, algs |-> {}, args |-> NoArgs, kw |-> NoArgs,
           fit |-> [mode |-> "none", path |-> "none", params |-> <<>>],
           cfg |-> CfgEmpty, log |-> {}, nums |-> <<>>, fail |-> "none",
           flags |-> {}, late |-> {}, zargs |-> [k \in {} |-> 0],
           wcfg |-> [level |-> [kind |-> "absent", n |-> 0, s |-> ""],
                     scale |-> [kind |-> "absent", n |-> 0],
                     bandpass |-> [kind |-> "absent", lo |-> 0, hi |-> 0],
                     extra |-> "none"]]

State(h, m, f) == [host |-> h, metadata |-> m, files |-> f]

\* a call that returns normally
Return(s, c, retv) ==
    [host |-> s.host, metadata |-> s.metadata, files |-> s.files,
     call |-> [c EXCEPT !.result = "return", !.ret = retv]]

\* a call that leaves by raising an exception of type e
Raise(s, c, e) ==
    [host |-> s.host, metadata |-> s.metadata, files |-> s.files,
     call |-> [c EXCEPT !.result = "raise", !.exc = e]]

\* variant: the original exception is re-raised as it is, not wrapped
Wrap_reraise(s, c, e) ==
    [host |-> s.host, metadata |-> s.metadata, files |-> s.files,
     call |-> [c EXCEPT !.result = "raise", !.exc = e,
                        !.log = c.log \cup {"error"}]]

\* except Exception as e: raise RuntimeError(f"...: {str(e)}") from e
Wrap(s, c, e) ==
    [host |-> s.host, metadata |-> s.metadata, files |-> s.files,
     call |-> [c EXCEPT !.result = "raise", !.exc = "RuntimeError",
                        !.cause = e, !.embeds = TRUE,
                        !.log = c.log \cup {"error"}]]

\* variant: the disabled branch leaves a marker file for the skipped step
disabled_return_recording(s, c, retv) ==
    Return(State(s.host, s.metadata, s.files \cup {"skipped.marker"}),
           [c EXCEPT !.log = c.log \cup {"info"}], retv)

\* the "step is disabled" branch: log and return the sentinel
disabled_return(s, c, retv) ==
    Return(s, [c EXCEPT !.log = c.log \cup {"info"}], retv)

\* self._update_metadata(key, record)
update_metadata(m, key, rec) == [m EXCEPT ![key] = <<rec>>]

(***************************************************************************)
(* AutoReject                                                              *)
(***************************************************************************)
\* round(n / d, 0) on exact rationals, ties to even (Python's round)
RoundHalfEven(n, d) ==
    LET q == n \div d
        r == n % d
    IN IF 2 * r < d THEN q
       ELSE IF 2 * r > d THEN q + 1
       ELSE IF q % 2 = 0 THEN q ELSE q + 1

\* variant: the percentage of the epochs kept instead of those rejected
rejection_percent_kept(before, after) ==
    IF before > 0 THEN RoundHalfEven(after * 10000, before) ELSE 0

\* round((rejected / len(epochs)) * 100, 2) if len(epochs) > 0 else 0,
\* in hundredths of a percent
rejection_percent(before, after) ==
    IF before > 0 THEN RoundHalfEven((before - after) * 10000, before) ELSE 0

AutorejectParams == {"n_interpolate", "consensus", "n_jobs"}

\* where a call of apply_autoreject may fail, or how its report ends
AutorejectOutcomes == {"fit", "meta", "save", "report_ok", "report_fail", "no_report_path"}

apply_autoreject(s, enabled, cfg, arg, kw, before, after, outcome) ==
    LET c0 == [NoCall EXCEPT !.step = "apply_autoreject", !.enabled = enabled,
                             !.arg = arg, !.kw = kw, !.cfg = cfg]
    IN
    IF ~enabled THEN disabled_return(s, c0, <<NoneV>>)
    ELSE
    LET p == merge_top(cfg, kw)
        c1 == [c0 EXCEPT !.args = p]
    IN
    IF arg = NoneV /\ s.host.epochs = Absent THEN Raise(s, c1, "AttributeError")
    ELSE
    LET epochs == IF arg = NoneV THEN s.host.epochs ELSE arg
        c2 == [c1 EXCEPT !.inst = epochs]
    IN
    IF ~IsMneEpochs(epochs) THEN Raise(s, c2, "TypeError")
    ELSE
    LET c3 == [c2 EXCEPT !.algs = {"AutoReject.fit_transform"},
                         !.log = {"header"}, !.fail = outcome]
    IN
    IF outcome = "fit" THEN Wrap(s, c3, LibError)
    ELSE
    LET rejected == before - after
        md == [initial_epochs |-> before, final_epochs |-> after,
               rejected_epochs |-> rejected,
               rejection_percent |-> rejection_percent(before, after),
               n_interpolate |-> p["n_interpolate"],
               consensus |-> p["consensus"], n_jobs |-> p["n_jobs"]]
        c4 == [c3 EXCEPT !.nums = <<before, after>>, !.log = {"header", "info"}]
    IN
    IF outcome = "meta" THEN Wrap(s, c4, LibError)
    ELSE
    LET m1 == update_metadata(s.metadata, "step_apply_autoreject", md)
        h1 == IF s.host.run_id THEN [s.host EXCEPT !.epochs = "EpochsClean"]
              ELSE s.host
        s1 == State(h1, m1, s.files)
    IN
    IF outcome = "save" THEN Wrap(s1, c4, LibError)
    ELSE
    LET f1 == s.files \cup {"epochs_result"}
        f2 == IF outcome = "report_ok" THEN f1 \cup {"autoreject_report"} ELSE f1
        c5 == [c4 EXCEPT !.log = c4.log \cup
                   (IF outcome = "report_ok" THEN {"success"}
                    ELSE IF outcome = "report_fail" THEN {"warning"} ELSE {})]
        \* metadata["report_path"] = ...: the key is put into the local
        \* dictionary once the record has been handed to _update_metadata
        c6 == [c5 EXCEPT !.late = IF outcome = "report_ok" THEN {"report_path"}
                                  ELSE {}]
    IN Return(State(h1, m1, f2), c6, <<"EpochsClean">>)

(***************************************************************************)
(* Source localization: the mixin of blocks/analysis/source_localization,  *)
(* which always produces 68-channel ROI data.  The stand-alone example in  *)
(* blocks/source_localization_plugin.py, which never consults              *)
(* _check_step_enabled, is a different method and is not modelled here.    *)
(***************************************************************************)
SourceLocParams == {"method", "lambda2", "montage", "resample_freq", "max_memory_gb"}

\* export / processor status / read-back / copy of .set / copy of the
\* companion files / metadata update
SourceLocOutcomes == {"export", "status", "read", "copy_set", "copy_rest", "meta", "ok"}

\* variant: the legacy attributes are left as they were
store_source_keep_legacy(h, source_data) == [h EXCEPT !.source_eeg = source_data]

\* self.source_eeg = source_data; self.stc = None; self.stc_list = None
store_source(h, source_data) ==
    [h EXCEPT !.source_eeg = source_data, !.stc = NoneV, !.stc_list = NoneV]

apply_source_localization(s, enabled, cfg, arg, kw, outcome) ==
    LET c0 == [NoCall EXCEPT !.step = "apply_source_localization",
                             !.enabled = enabled, !.arg = arg, !.kw = kw, !.cfg = cfg]
    IN
    IF ~enabled THEN disabled_return(s, c0, <<NoneV>>)
    ELSE
    LET p == merge_top(cfg, kw)
        c1 == [c0 EXCEPT !.args = p]
    IN
    IF arg = NoneV /\ ~Present(s.host, "epochs") /\ ~Present(s.host, "raw")
    THEN Raise(s, c1, "AttributeError")
    ELSE
    LET data == IF arg # NoneV THEN arg
                ELSE IF Present(s.host, "epochs") THEN s.host.epochs
                ELSE s.host.raw
        c2 == [c1 EXCEPT !.inst = data]
        is_raw == IsBaseRaw(data)
    IN
    IF ~(is_raw \/ IsBaseEpochs(data)) THEN Raise(s, c2, "TypeError")
    ELSE
    LET c3 == [c2 EXCEPT !.log = {"header", "info"}, !.fail = outcome,
                         !.flags = {"tmpdir_created", "tmpdir_removed"}]
        c4 == [c3 EXCEPT !.algs = {"SequentialProcessor.process_file"}]
    IN
    IF outcome = "export" THEN Wrap(s, c3, LibError)
    ELSE IF outcome = "status" THEN Wrap(s, c4, "RuntimeError")
    ELSE IF outcome \in {"read", "copy_set"} THEN Wrap(s, c4, LibError)
    ELSE
    LET f1 == s.files \cup {"dk_regions.set"}
    IN
    IF outcome = "copy_rest" THEN Wrap(State(s.host, s.metadata, f1), c4, LibError)
    ELSE
    LET f2 == f1 \cup {"dk_regions.fdt", "region_info.csv"}
        source_data == IF is_raw THEN "SourceRaw" ELSE "SourceEpochs"
        h1 == store_source(s.host, source_data)
        c5 == [c4 EXCEPT !.log = {"header", "info", "warning", "success"}]
        md == [method |-> p["method"], lambda2 |-> p["lambda2"],
               montage |-> p["montage"],
               data_type |-> IF is_raw THEN "raw" ELSE "epochs"]
    IN
    IF outcome = "meta" THEN Wrap(State(h1, s.metadata, f2), c5, LibError)
    ELSE Return(State(h1, update_metadata(s.metadata,
                          "step_apply_source_localization", md), f2),
                c5, <<source_data>>)

(***************************************************************************)
(* Source PSD                                                              *)
(***************************************************************************)
SourcePSDParams == {"segment_duration", "n_jobs", "generate_plots"}

\* the algorithm fails before it saves / while drawing the band-power plots /
\* visualize_psd_results fails / the metadata update fails / nothing fails
SourcePSDOutcomes == {"alg", "band_plots", "visualization", "meta", "ok"}

\* variant: the table files are created before the spectra are computed
calculate_psd_files_first(s, c, roi, data, plots, outcome) ==
    LET name == IF roi THEN "calculate_roi_psd" ELSE "calculate_source_psd_list"
        c1 == [c EXCEPT !.algs = {name}]
        tables == IF roi THEN {"roi_psd.parquet", "roi_bands.csv"}
                  ELSE {"psd.parquet", "bands.csv"}
        s1 == State(s.host, s.metadata, s.files \cup tables)
    IN
    IF roi /\ ~(IsBaseRaw(data) \/ IsBaseEpochs(data))
    THEN [ok |-> FALSE, st |-> s, call |-> [c1 EXCEPT !.fail = "alg"],
          exc |-> "TypeError"]
    ELSE IF outcome = "alg" \/ (plots /\ outcome = "band_plots")
    THEN [ok |-> FALSE, st |-> s1, call |-> c1, exc |-> LibError]
    ELSE [ok |-> TRUE,
          st |-> State(s.host, s.metadata,
                       IF plots THEN s1.files \cup {"hemisphere_bands.png"}
                       ELSE s1.files),
          call |-> c1, exc |-> NoExc]

\* calculate_roi_psd and calculate_source_psd_list: the table files are
\* saved first, the band-power figures are drawn afterwards, unguarded
calculate_psd(s, c, roi, data, plots, outcome) ==
    LET name == IF roi THEN "calculate_roi_psd" ELSE "calculate_source_psd_list"
        c1 == [c EXCEPT !.algs = {name}]
        tables == IF roi THEN {"roi_psd.parquet", "roi_bands.csv"}
                  ELSE {"psd.parquet", "bands.csv"}
        f1 == s.files \cup tables
    IN
    IF roi /\ ~(IsBaseRaw(data) \/ IsBaseEpochs(data))
    THEN [ok |-> FALSE, st |-> s, call |-> [c1 EXCEPT !.fail = "alg"],
          exc |-> "TypeError"]
    ELSE IF outcome = "alg"
    THEN [ok |-> FALSE, st |-> s, call |-> c1, exc |-> LibError]
    ELSE IF plots /\ outcome = "band_plots"
    THEN [ok |-> FALSE, st |-> State(s.host, s.metadata, f1), call |-> c1,
          exc |-> LibError]
    ELSE [ok |-> TRUE,
          st |-> State(s.host, s.metadata,
                       IF plots THEN f1 \cup {"hemisphere_bands.png"} ELSE f1),
          call |-> c1, exc |-> NoExc]

\* variant: the vertex-level estimate is looked for before the ROI data
psd_input_stc_first(h, arg) ==
    IF arg # NoneV THEN arg
    ELSE IF Present(h, "stc") THEN h.stc
    ELSE IF Present(h, "stc_list") THEN h.stc_list
    ELSE h.source_eeg

\* the data a call works on: the explicit parameter, else self.source_eeg,
\* else self.stc_list, else self.stc
psd_input(h, arg) ==
    IF arg # NoneV THEN arg
    ELSE IF Present(h, "source_eeg") THEN h.source_eeg
    ELSE IF Present(h, "stc_list") THEN h.stc_list
    ELSE h.stc

apply_source_psd(s, enabled, cfg, arg, kw, plots, outcome) ==
    LET c0 == [NoCall EXCEPT !.step = "apply_source_psd", !.enabled = enabled,
                             !.arg = arg, !.kw = kw, !.cfg = cfg]
    IN
    IF ~enabled THEN disabled_return(s, c0, <<NoneV, NoneV>>)
    ELSE
    LET p == merge_top(cfg, kw)
        c1 == [c0 EXCEPT !.args = p,
                         !.flags = IF plots THEN {"generate_plots"} ELSE {}]
        h == s.host
    IN
    IF arg = NoneV /\ ~Present(h, "source_eeg") /\ ~Present(h, "stc_list")
                   /\ ~Present(h, "stc")
    THEN Raise(s, c1, "AttributeError")
    ELSE IF arg # NoneV /\ ~(IsBaseRaw(arg) \/ IsBaseEpochs(arg)
                             \/ IsSourceEstimate(arg) \/ IsList(arg))
    THEN Raise(s, [c1 EXCEPT !.inst = arg], "TypeError")
    ELSE
    LET use_roi_mode == IF arg = NoneV THEN Present(h, "source_eeg")
                        ELSE IsBaseRaw(arg) \/ IsBaseEpochs(arg)
        data == psd_input(h, arg)
        c2 == [c1 EXCEPT !.inst = data,
                         !.flags = c1.flags \cup
                                   (IF use_roi_mode THEN {"roi_mode"} ELSE {"vertex_mode"})]
    IN
    IF ~use_roi_mode /\ ~(IsSourceEstimate(data) \/ IsList(data))
    THEN Raise(s, c2, "TypeError")
    ELSE
    LET \* without generate_plots no figure is drawn, so none can fail
        c3 == [c2 EXCEPT !.log = {"header", "info"},
                         !.fail = IF ~plots /\ outcome \in {"band_plots", "visualization"}
                                  THEN "ok" ELSE outcome]
        r == calculate_psd(s, c3, use_roi_mode, data, plots, outcome)
    IN
    IF ~r.ok THEN Wrap(r.st, r.call, r.exc)
    ELSE
    LET viz_ok == plots /\ outcome # "visualization"
        f2 == IF viz_ok THEN r.st.files \cup {"psd_visualization.png"}
              ELSE r.st.files
        c4 == [r.call EXCEPT !.log = {"header", "info", "success"} \cup
                   (IF plots /\ outcome = "visualization" THEN {"warning"} ELSE {})]
        md == [segment_duration |-> p["segment_duration"], n_jobs |-> p["n_jobs"],
               generate_plots |-> p["generate_plots"],
               psd_mode |-> IF use_roi_mode THEN "roi_optimized" ELSE "vertex_level"]
    IN
    IF outcome = "meta" THEN Wrap(State(s.host, s.metadata, f2), c4, LibError)
    ELSE Return(State([s.host EXCEPT !.source_psd_df = "PsdDF"],
                      update_metadata(s.metadata, "step_apply_source_psd", md), f2),
                c4, <<"PsdDF", "roi_psd.parquet">>)

(***************************************************************************)
(* Source connectivity.  Line 181 of the mixin is a stray `if` without a   *)
(* body; the method is modelled as the statements around it read.          *)
(***************************************************************************)
ConnectivityParams == {"epoch_length", "n_epochs", "n_jobs"}

\* the algorithm raises / every method-band combination was skipped /
\* the metadata update fails / nothing fails
ConnectivityOutcomes == {"alg", "empty", "meta", "ok"}

apply_source_connectivity(s, enabled, cfg, arg, kw, outcome) ==
    LET c0 == [NoCall EXCEPT !.step = "apply_source_connectivity",
                             !.enabled = enabled, !.arg = arg, !.kw = kw, !.cfg = cfg]
    IN
    IF ~enabled THEN disabled_return(s, c0, <<NoneV, NoneV>>)
    ELSE
    LET p == merge_top(cfg, kw)
        c1 == [c0 EXCEPT !.args = p]
    IN
    IF arg = NoneV /\ ~Present(s.host, "stc") THEN Raise(s, c1, "AttributeError")
    ELSE
    LET stc == IF arg = NoneV THEN s.host.stc ELSE arg
        c2 == [c1 EXCEPT !.inst = stc]
    IN
    IF ~IsSourceEstimate(stc) THEN Raise(s, c2, "TypeError")
    ELSE
    LET c3 == [c2 EXCEPT !.log = {"header", "info"}, !.fail = outcome,
                         !.algs = {"calculate_source_connectivity"}]
        flog == s.files \cup {"connectivity_log.txt"}
    IN
    IF outcome = "alg" THEN Wrap(State(s.host, s.metadata, flog), c3, LibError)
    \* with no row at all the table has no "method" column, and the graph
    \* metrics of the algorithm raise KeyError on it
    ELSE IF outcome = "empty"
    THEN Wrap(State(s.host, s.metadata, flog), c3, "KeyError")
    ELSE
    LET f1 == flog \cup {"connectivity_matrix.csv", "connectivity_summary.csv",
                         "graph_metrics.csv"}
        c4 == [c3 EXCEPT !.log = {"header", "info", "success"}]
        md == [epoch_length |-> p["epoch_length"], n_epochs |-> p["n_epochs"],
               n_jobs |-> p["n_jobs"]]
    IN
    IF outcome = "meta" THEN Wrap(State(s.host, s.metadata, f1), c4, LibError)
    ELSE Return(State([s.host EXCEPT !.source_connectivity_df = "ConnDF"],
                      update_metadata(s.metadata,
                                      "step_apply_source_connectivity", md), f1),
                c4, <<"ConnDF", "connectivity_summary.csv">>)

(***************************************************************************)
(* FOOOF aperiodic and periodic                                            *)
(***************************************************************************)
\* valid / NaN or inf / valid with offset exactly 0.0 / knee or exponent <= 0
ParamKinds == {"valid", "nan", "zero_offset", "nonpositive"}

AperiodicModes == {"knee", "fixed"}

\* columns of fg.get_params("aperiodic_params"): offset, knee, exponent in
\* knee mode; offset, exponent in fixed mode
KneeColumns == 3
FixedColumns == 2
ParamColumns(fit_mode) == IF fit_mode = "knee" THEN KneeColumns ELSE FixedColumns

\* np.any(~aperiodic_params[:, 0].astype(bool)): some offset is exactly zero
\* (NaN is truthy)
some_fits_failed(params) == \E v \in DOMAIN params : params[v] = "zero_offset"

\* variant: a status string that is not spelled like the others
row_status_misspelt(mode, columns, kind) ==
    IF kind = "nan" THEN "NAN_PARAMS"
    ELSE IF mode = "knee"
    THEN IF columns < KneeColumns THEN "IndexError"
         ELSE IF kind = "nonpositive" THEN "INVALID_PARAMS" ELSE "SUCCESS"
    ELSE IF kind = "nonpositive" THEN "Invalid exponent" ELSE "SUCCESS"

\* the status of one vertex, or "IndexError" when a column is read that the
\* fitted parameters do not have (aperiodic_params[i, 2] of a fixed-mode fit)
row_status(mode, columns, kind) ==
    IF kind = "nan" THEN "NAN_PARAMS"
    ELSE IF mode = "knee"
    THEN IF columns < KneeColumns THEN "IndexError"
         ELSE IF kind = "nonpositive" THEN "INVALID_PARAMS" ELSE "SUCCESS"
    ELSE IF kind = "nonpositive" THEN "INVALID_EXPONENT" ELSE "SUCCESS"

\* how calculate_fooof_aperiodic fitted the vertices: with the primary
\* parameters, with the fallback parameters, or not at all
FitPaths == {"primary", "fallback", "both_fail"}

\* the statuses of the rows, or "IndexError" for a row that cannot be built
fit_statuses(mode, fit) ==
    [v \in DOMAIN fit.params |->
        IF fit.path = "both_fail" THEN "FITTING_FAILED"
        ELSE row_status(mode,
                        ParamColumns(IF fit.path = "primary" THEN mode ELSE "fixed"),
                        fit.params[v])]

FooofAperiodicParams == {"fmin", "fmax", "n_jobs", "aperiodic_mode"}
FooofPeriodicParams == {"freq_bands", "n_jobs", "aperiodic_mode"}

\* the vertex PSD fails / the fit function raises / the fit function returns
\* the empty table (library missing) / metadata update fails / nothing fails
FooofAperiodicOutcomes == {"psd", "fit", "empty", "meta", "ok"}
FooofPeriodicOutcomes == {"alg", "meta", "ok"}

\* variant: the spectra are not kept on the host
store_aperiodic_table_only(h) == [h EXCEPT !.fooof_aperiodic_df = "AperiodicDF"]

\* self.fooof_aperiodic_df = aperiodic_df; self.stc_psd = stc_psd
store_aperiodic(h) ==
    [h EXCEPT !.fooof_aperiodic_df = "AperiodicDF", !.stc_psd = "StcPsd"]

apply_fooof_aperiodic(s, enabled, cfg, arg, kw, outcome, mode, fit) ==
    LET c0 == [NoCall EXCEPT !.step = "apply_fooof_aperiodic", !.enabled = enabled,
                             !.arg = arg, !.kw = kw, !.cfg = cfg]
    IN
    IF ~enabled THEN disabled_return(s, c0, <<NoneV, NoneV>>)
    ELSE
    LET p == merge_value(cfg, kw)
        c1 == [c0 EXCEPT !.args = p]
    IN
    IF arg = NoneV /\ ~Present(s.host, "stc") THEN Raise(s, c1, "AttributeError")
    ELSE
    LET stc == IF arg = NoneV THEN s.host.stc ELSE arg
        c2 == [c1 EXCEPT !.inst = stc]
    IN
    IF ~IsSourceEstimate(stc) THEN Raise(s, c2, "TypeError")
    ELSE
    LET c3 == [c2 EXCEPT !.log = {"header", "info"}, !.fail = outcome,
                         !.algs = {"calculate_vertex_psd_for_fooof"}]
    IN
    IF outcome = "psd" THEN Wrap(s, c3, LibError)
    ELSE
    LET f1 == s.files \cup {"psd-stc.h5"}
        c4 == [c3 EXCEPT !.algs = {"calculate_vertex_psd_for_fooof",
                                   "calculate_fooof_aperiodic"}]
    IN
    IF outcome = "fit" THEN Wrap(State(s.host, s.metadata, f1), c4, LibError)
    ELSE IF outcome = "empty" THEN Wrap(State(s.host, s.metadata, f1), c4, "KeyError")
    ELSE
    LET statuses == fit_statuses(mode, fit)
        c4f == [c4 EXCEPT !.fit = [mode |-> mode, path |-> fit.path,
                                   params |-> fit.params]]
    IN
    \* a row that cannot be built ends calculate_fooof_aperiodic
    IF \E v \in DOMAIN statuses : statuses[v] = "IndexError"
    THEN Wrap(State(s.host, s.metadata, f1), [c4f EXCEPT !.fail = "fit"], "IndexError")
    ELSE
    LET n_vertices == Len(statuses)
        success_count == Cardinality({v \in DOMAIN statuses : statuses[v] = "SUCCESS"})
        f2 == f1 \cup {"fooof_aperiodic.csv", "fooof_aperiodic.parquet"}
        c5 == [c4f EXCEPT !.log = {"header", "info", "success"},
                          !.nums = <<n_vertices, success_count>>]
        md == [fmin |-> p["fmin"], fmax |-> p["fmax"], n_jobs |-> p["n_jobs"],
               aperiodic_mode |-> p["aperiodic_mode"], n_vertices |-> n_vertices,
               success_count |-> success_count,
               success_rate |-> (success_count * 100) \div n_vertices]
    IN
    IF outcome = "meta" THEN Wrap(State(s.host, s.metadata, f2), c5, LibError)
    ELSE Return(State(store_aperiodic(s.host),
                      update_metadata(s.metadata, "step_apply_fooof_aperiodic", md),
                      f2),
                c5, <<"AperiodicDF", "fooof_aperiodic.parquet">>)

apply_fooof_periodic(s, enabled, cfg, arg, kw, outcome) ==
    LET c0 == [NoCall EXCEPT !.step = "apply_fooof_periodic", !.enabled = enabled,
                             !.arg = arg, !.kw = kw, !.cfg = cfg]
    IN
    IF ~enabled THEN disabled_return(s, c0, <<NoneV, NoneV>>)
    ELSE
    LET p == merge_value(cfg, kw)
        c1 == [c0 EXCEPT !.args = p]
    IN
    IF arg = NoneV /\ ~Present(s.host, "stc_psd") THEN Raise(s, c1, "AttributeError")
    ELSE
    LET stc_psd == IF arg = NoneV THEN s.host.stc_psd ELSE arg
        c2 == [c1 EXCEPT !.inst = stc_psd, !.log = {"header", "info"},
                         !.fail = outcome, !.algs = {"calculate_fooof_periodic"}]
    IN
    \* calculate_fooof_periodic itself rejects an object without data/times
    IF ~IsSourceEstimate(stc_psd)
    THEN Wrap(s, [c2 EXCEPT !.fail = "alg"], "ValueError")
    ELSE IF outcome = "alg" THEN Wrap(s, c2, LibError)
    ELSE
    LET f1 == s.files \cup {"fooof_periodic.csv", "fooof_periodic.parquet"}
        c3 == [c2 EXCEPT !.log = {"header", "info", "success"}]
        md == [n_jobs |-> p["n_jobs"], aperiodic_mode |-> p["aperiodic_mode"]]
    IN
    IF outcome = "meta" THEN Wrap(State(s.host, s.metadata, f1), c3, LibError)
    ELSE Return(State([s.host EXCEPT !.fooof_periodic_df = "PeriodicDF"],
                      update_metadata(s.metadata, "step_apply_fooof_periodic", md),
                      f1),
                c3, <<"PeriodicDF", "fooof_periodic.parquet">>)

(***************************************************************************)
(* Host services shared by the signal-processing blocks                    *)
(***************************************************************************)
\* objects that carry .info and .get_data() (Raw and Epochs containers)
HasInfo(x) == IsBaseRaw(x) \/ IsBaseEpochs(x)

\* inst = data if data is not None else getattr(self, "raw", None)
resolve_raw(h, arg) ==
    IF arg # NoneV THEN arg ELSE IF h.raw = Absent THEN NoneV ELSE h.raw

\* self._update_instance_data(inst, cleaned): the host replaces the
\* attribute that holds inst
update_instance_data(h, inst, cleaned) ==
    IF h.raw = inst THEN [h EXCEPT !.raw = cleaned]
    ELSE IF h.epochs = inst THEN [h EXCEPT !.epochs = cleaned]
    ELSE h

Cleaned(inst) == IF IsBaseRaw(inst) THEN "RawClean" ELSE "EpochsClean"

(***************************************************************************)
(* Zapline                                                                 *)
(***************************************************************************)
DefaultFline == 60
DefaultNkeep == 1
DefaultMaxIter == 10
MinChannels == 2
RecommendedChannels == 32
ModestReductionDb == 10

\* params.get(k) or default
OrDefault(m, k, d) == IF k \in DOMAIN m /\ m[k] # 0 THEN m[k] ELSE d

\* (settings or {}).get("value") or {}
zapline_params(settings) ==
    LET params == IF settings.hasValue THEN settings.value ELSE [k \in {} |-> 0]
    IN [fline |-> OrDefault(params, "fline", DefaultFline),
        nkeep |-> OrDefault(params, "nkeep", DefaultNkeep),
        use_iter |-> OrDefault(params, "use_iter", 0),
        max_iter |-> OrDefault(params, "max_iter", DefaultMaxIter)]

\* fline >= inst.info["sfreq"] / 2
above_nyquist(fline, sfreq) == 2 * fline >= sfreq

\* variant: the channel-count test off by one
too_few_channels_off_by_one(nchan) == nchan < MinChannels - 1

\* n_channels < 2
too_few_channels(nchan) == nchan < MinChannels

\* reduction_db = power_before - power_after if power_before else None
has_reduction(pb, pa) == pb.ok /\ pb.db # 0 /\ pa.ok

\* apply_zapline_dss raises / raises BlockDependencyError / the host's
\* update, save or metadata call raises / nothing fails
ZaplineOutcomes == {"dss_fail", "dss_dep", "update", "save", "meta", "ok"}

\* variant: every exception of apply_zapline_dss is raised again
dss_except_reraise(s, c, inst, dependency) ==
    Raise(s, c, IF dependency THEN "BlockDependencyError" ELSE LibError)

\* except (ImportError, Exception): a BlockDependencyError is raised again,
\* anything else is logged and the input is returned as it came
dss_except(s, c, inst, dependency) ==
    IF dependency THEN Raise(s, c, "BlockDependencyError")
    ELSE Return(s, [c EXCEPT !.log = c.log \cup {"error"}], <<inst>>)

apply_zapline(s, enabled, settings, arg, nchan, sfreq, pb, pa, outcome) ==
    LET inst == resolve_raw(s.host, arg)
        c0 == [NoCall EXCEPT !.step = "apply_zapline", !.enabled = enabled,
                             !.arg = arg, !.inst = inst]
    IN
    IF inst = NoneV THEN Return(s, [c0 EXCEPT !.log = {"warning"}], <<inst>>)
    ELSE IF ~enabled THEN disabled_return(s, c0, <<inst>>)
    ELSE
    LET z == zapline_params(settings)
        c1 == [c0 EXCEPT !.cfg = [top |-> EmptyMap, hasValue |-> settings.hasValue,
                                  value |-> EmptyMap],
                         !.zargs = z,
                         !.log = IF z.fline \in {50, 60} THEN {} ELSE {"warning"}]
    IN
    IF ~HasInfo(inst) THEN Raise(s, c1, "AttributeError")
    ELSE
    LET c2 == [c1 EXCEPT !.nums = <<nchan, sfreq>>]
    IN
    IF above_nyquist(z.fline, sfreq)
    THEN Return(s, [c2 EXCEPT !.log = c1.log \cup {"error"}], <<inst>>)
    ELSE
    LET c3 == [c2 EXCEPT !.log = c1.log \cup
                   (IF z.nkeep < 1 \/ z.nkeep > 5 THEN {"warning"} ELSE {})]
    IN
    IF too_few_channels(nchan)
    THEN Return(s, [c3 EXCEPT !.log = c3.log \cup {"error"}], <<inst>>)
    ELSE
    LET c4 == [c3 EXCEPT !.log = c3.log \cup
                   (IF nchan < RecommendedChannels THEN {"warning"} ELSE {})
                   \cup (IF pb.ok THEN {"info"} ELSE {"warning"}) \cup {"header"},
                         !.algs = {"compute_line_noise_power", "apply_zapline_dss"},
                         !.fail = outcome]
    IN
    IF outcome \in {"dss_dep", "dss_fail"}
    THEN dss_except(s, c4, inst, outcome = "dss_dep")
    ELSE
    LET cleaned == Cleaned(inst)
        reduced == has_reduction(pb, pa)
        reduction_db == IF reduced THEN pb.db - pa.db ELSE 0
        c5 == [c4 EXCEPT !.log = c4.log
                   \cup (IF pa.ok THEN {"info"} ELSE {"warning"})
                   \cup (IF reduced /\ reduction_db < ModestReductionDb
                         THEN {"warning"} ELSE {})]
        h1 == update_instance_data(s.host, inst, cleaned)
        f1 == s.files \cup {"raw_result"}
        md == [fline |-> z.fline, nkeep |-> z.nkeep, use_iter |-> z.use_iter,
               max_iter |-> z.max_iter, n_channels |-> nchan,
               has_power_before |-> pb.ok, power_before_db |-> pb.db,
               has_power_after |-> pa.ok, power_after_db |-> pa.db,
               has_reduction |-> reduced, reduction_db |-> reduction_db]
    IN
    IF outcome = "update" THEN Raise(s, c5, LibError)
    ELSE IF outcome = "save" THEN Raise(State(h1, s.metadata, s.files), c5, LibError)
    ELSE IF outcome = "meta" THEN Raise(State(h1, s.metadata, f1), c5, LibError)
    ELSE Return(State(h1, update_metadata(s.metadata, "step_zapline", md), f1),
                [c5 EXCEPT !.log = c5.log \cup {"success"}], <<cleaned>>)

(***************************************************************************)
(* Wavelet threshold                                                       *)
(***************************************************************************)
DefaultLevel == 5

\* str.lower() on the level strings that occur
Lower(str) == IF str \in {"AUTO", "Auto"} THEN "auto" ELSE str

\* level: a string must be "auto" in any letter case, an integer must be >= 0
level_error(level) ==
    IF level.kind = "str" THEN Lower(level.s) # "auto"
    ELSE IF level.kind = "int" THEN level.n < 0
    ELSE FALSE

\* threshold_scale: float() must succeed and the value must be positive
scale_error(scale) ==
    scale.kind = "bad" \/ (scale.kind = "num" /\ scale.n <= 0)

\* variant: a bandpass with low = high is let through
bandpass_error_strict_only(bp) ==
    bp.kind = "bad" \/ (bp.kind = "pair" /\ bp.lo > bp.hi)

\* bandpass: None is accepted, otherwise two elements with low < high
bandpass_error(bp) ==
    bp.kind = "bad" \/ (bp.kind = "pair" /\ bp.lo >= bp.hi)

\* first failing validation of the settings, in the order of the code
wavelet_validation(w) ==
    IF level_error(w.level) THEN "ValueError"
    ELSE IF scale_error(w.scale) THEN "ValueError"
    ELSE IF w.extra = "bad_psd_fmax" THEN "ValueError"
    ELSE IF bandpass_error(w.bandpass) THEN "ValueError"
    ELSE IF w.extra = "bad_filter_kwargs" THEN "TypeError"
    ELSE NoExc

\* inst.get_data() raises / wavelet_threshold raises / the report fails /
\* the host's update, save or metadata call raises / nothing fails
WaveletOutcomes == {"get_data", "denoise", "report_fail", "update", "save", "meta", "ok"}

apply_wavelet_threshold(s, enabled, w, arg, outcome) ==
    LET inst == resolve_raw(s.host, arg)
        c0 == [NoCall EXCEPT !.step = "apply_wavelet_threshold", !.enabled = enabled,
                             !.arg = arg, !.inst = inst]
    IN
    IF inst = NoneV THEN Return(s, [c0 EXCEPT !.log = {"warning"}], <<inst>>)
    ELSE IF ~enabled THEN disabled_return(s, c0, <<inst>>)
    ELSE
    LET c1 == [c0 EXCEPT !.wcfg = w]
        invalid == wavelet_validation(w)
    IN
    IF invalid # NoExc THEN Raise(s, c1, invalid)
    ELSE IF ~HasInfo(inst) THEN Raise(s, c1, "AttributeError")
    ELSE
    LET c2 == [c1 EXCEPT !.fail = outcome]
    IN
    IF outcome = "get_data" THEN Raise(s, c2, LibError)
    ELSE
    LET c3 == [c2 EXCEPT !.log = {"header"}, !.algs = {"wavelet_threshold"}]
    IN
    IF outcome = "denoise" THEN Raise(s, c3, LibError)
    ELSE
    LET cleaned == Cleaned(inst)
        reported == outcome # "report_fail"
        c4 == [c3 EXCEPT !.log = IF reported THEN {"header"} ELSE {"header", "warning"},
                         !.algs = {"wavelet_threshold", "generate_wavelet_report"}]
        f0 == IF reported THEN s.files \cup {"wavelet_report"} ELSE s.files
        h1 == update_instance_data(s.host, inst, cleaned)
        f1 == f0 \cup {"raw_result"}
        md == [level_requested |-> IF w.level.kind = "str" THEN -1
                                   ELSE IF w.level.kind = "int" THEN w.level.n
                                   ELSE DefaultLevel,
               level_auto |-> w.level.kind = "str",
               bandpass |-> w.bandpass, threshold_scale |-> w.scale,
               has_report |-> reported]
    IN
    IF outcome = "update" THEN Raise(State(s.host, s.metadata, f0), c4, LibError)
    ELSE IF outcome = "save" THEN Raise(State(h1, s.metadata, f0), c4, LibError)
    ELSE IF outcome = "meta" THEN Raise(State(h1, s.metadata, f1), c4, LibError)
    ELSE Return(State(h1, update_metadata(s.metadata, "step_wavelet_threshold", md),
                      f1),
                [c4 EXCEPT !.log = c4.log \cup {"success"}], <<cleaned>>)

(***************************************************************************)
(* Initial state and next-state relation                                   *)
(***************************************************************************)
MetaKeys == {"step_apply_autoreject", "step_apply_source_psd",
             "step_apply_source_localization", "step_apply_source_connectivity",
             "step_apply_fooof_aperiodic", "step_apply_fooof_periodic",
             "step_zapline", "step_wavelet_threshold"}

EmptyHost == [raw |-> Absent, epochs |-> Absent, stc |-> Absent,
              stc_list |-> Absent, source_eeg |-> Absent, stc_psd |-> Absent,
              source_psd_df |-> Absent, fooof_aperiodic_df |-> Absent,
              fooof_periodic_df |-> Absent, source_connectivity_df |-> Absent,
              run_id |-> TRUE]

\* host states before a step: what the earlier steps of a task left behind
InitHosts ==
    {[EmptyHost EXCEPT !.raw = r, !.epochs = e] :
        r \in {Absent, NoneV, "Raw", Other},
        e \in {Absent, NoneV, "Epochs", Other}}
    \cup
    {[EmptyHost EXCEPT !.epochs = e, !.run_id = FALSE] :
        e \in {Absent, NoneV, "Epochs", Other}}
    \cup
    {[EmptyHost EXCEPT !.source_eeg = a, !.stc_list = b, !.stc = c] :
        a \in {Absent, NoneV, "SourceRaw"},
        b \in {Absent, NoneV, "StcList"},
        c \in {Absent, NoneV, "STC"}}
    \cup
    {[EmptyHost EXCEPT !.source_eeg = Other, !.stc = "STC"],
     [EmptyHost EXCEPT !.stc_list = Other, !.stc = "STC"],
     [EmptyHost EXCEPT !.stc = Other]}
    \cup
    {[EmptyHost EXCEPT !.stc_psd = a] : a \in {Absent, NoneV, "StcPsd", Other}}

\* no algorithm function is being followed step by step
NoAlg == [fn |-> "none"]

Init ==
    /\ host \in InitHosts
    /\ metadata = [k \in MetaKeys |-> <<>>]
    /\ files = {}
    /\ call = NoCall
    /\ pre = State(host, metadata, files)
    /\ ncalls = 0
    /\ alg = NoAlg

\* no step call has been made yet
Idle == call.step = "none"

\* one step call: the whole handler, from the host state it starts in
Do(result) ==
    /\ \E r \in {result} :
          /\ host' = r.host
          /\ metadata' = r.metadata
          /\ files' = r.files
          /\ call' = r.call
    /\ pre' = State(host, metadata, files)
    /\ ncalls' = ncalls + 1
    /\ alg' = alg

Cur == State(host, metadata, files)

KwAll(params) == [k \in params |-> "caller"]

\* The behaviour of the wrapped libraries is drawn only in calls that reach
\* them: a call that ends before its delegated computation (Reached false)
\* is the same call whatever the libraries would have done.
Reached(r) == r.call.algs # {}

CallAutoreject ==
    Idle /\
    \E enabled \in BOOLEAN, arg \in {NoneV, "EpochsArg", Other},
       cfg \in CfgChoices(AutorejectParams, "n_jobs") :
       LET kw == KwAll(AutorejectParams)
           r0 == apply_autoreject(Cur, enabled, cfg, arg, kw, 0, 0, "fit")
       IN IF ~Reached(r0) THEN Do(r0)
          ELSE \E before \in 0..MaxEpochs, outcome \in AutorejectOutcomes :
               \E after \in 0..before :
                  Do(apply_autoreject(Cur, enabled, cfg, arg, kw, before, after,
                                      outcome))

CallSourceLocalization ==
    Idle /\
    \E enabled \in BOOLEAN, arg \in {NoneV, "RawArg", "EpochsArg", Other},
       cfg \in CfgChoices(SourceLocParams, "lambda2") :
       LET kw == KwAll(SourceLocParams)
           r0 == apply_source_localization(Cur, enabled, cfg, arg, kw, "status")
       IN IF ~Reached(r0) THEN Do(r0)
          ELSE \E outcome \in SourceLocOutcomes :
               Do(apply_source_localization(Cur, enabled, cfg, arg, kw, outcome))

CallSourcePSD ==
    Idle /\
    \E enabled \in BOOLEAN, arg \in {NoneV, "RawArg", "STCArg", "StcListArg", Other},
       cfg \in CfgChoices(SourcePSDParams, "n_jobs") :
       LET kw == KwAll(SourcePSDParams)
           r0 == apply_source_psd(Cur, enabled, cfg, arg, kw, FALSE, "alg")
       IN IF ~Reached(r0) THEN Do(r0)
          ELSE \E plots \in BOOLEAN, outcome \in SourcePSDOutcomes :
               Do(apply_source_psd(Cur, enabled, cfg, arg, kw, plots, outcome))

CallSourceConnectivity ==
    Idle /\
    \E enabled \in BOOLEAN, arg \in {NoneV, "STCArg", Other},
       cfg \in CfgChoices(ConnectivityParams, "n_epochs") :
       LET kw == KwAll(ConnectivityParams)
           r0 == apply_source_connectivity(Cur, enabled, cfg, arg, kw, "alg")
       IN IF ~Reached(r0) THEN Do(r0)
          ELSE \E outcome \in ConnectivityOutcomes :
               Do(apply_source_connectivity(Cur, enabled, cfg, arg, kw, outcome))

StepVertices == 2

\* fits of the vertices of one call: a fit that passed the check of the
\* primary fit, or a fallback fit, holds no offset of exactly zero
StepFits ==
    {[path |-> path, params |-> params] :
        path \in FitPaths,
        params \in [1..StepVertices -> ParamKinds \ {"zero_offset"}]}

CallFooofAperiodic ==
    Idle /\
    \E enabled \in BOOLEAN, arg \in {NoneV, "STCArg", Other},
       cfg \in CfgChoices(FooofAperiodicParams, "fmax") :
       LET kw == KwAll(FooofAperiodicParams)
           fit0 == [path |-> "both_fail", params |-> <<"nan">>]
           r0 == apply_fooof_aperiodic(Cur, enabled, cfg, arg, kw, "psd", "fixed", fit0)
       IN IF ~Reached(r0) THEN Do(r0)
          ELSE \E outcome \in FooofAperiodicOutcomes :
               \* the fits are looked at only once the table is being built
               IF outcome \in {"psd", "fit", "empty"}
               THEN Do(apply_fooof_aperiodic(Cur, enabled, cfg, arg, kw, outcome,
                                             "fixed", fit0))
               ELSE \E mode \in AperiodicModes, fit \in StepFits :
                    Do(apply_fooof_aperiodic(Cur, enabled, cfg, arg, kw, outcome,
                                             mode, fit))

CallFooofPeriodic ==
    Idle /\
    \E enabled \in BOOLEAN, arg \in {NoneV, "StcPsdArg", Other},
       cfg \in CfgChoices(FooofPeriodicParams, "n_jobs") :
       LET kw == KwAll(FooofPeriodicParams)
           r0 == apply_fooof_periodic(Cur, enabled, cfg, arg, kw, "alg")
       IN IF ~Reached(r0) THEN Do(r0)
          ELSE \E outcome \in FooofPeriodicOutcomes :
               Do(apply_fooof_periodic(Cur, enabled, cfg, arg, kw, outcome))

\* zapline settings: no "value" entry, or a "value" mapping
ZaplineValues ==
    {[k \in {} |-> 0], [k \in {"fline"} |-> 0], [k \in {"fline"} |-> 50],
     [fline |-> 60, nkeep |-> 2, use_iter |-> 1, max_iter |-> 5]}

ZaplineSettings ==
    {[hasValue |-> FALSE, value |-> [k \in {} |-> 0]]}
    \cup {[hasValue |-> TRUE, value |-> v] : v \in ZaplineValues}

ChannelCounts == {1, 8, 64}
SamplingRates == {100, 250}
PowerBefore == {[ok |-> FALSE, db |-> 0], [ok |-> TRUE, db |-> 0],
                [ok |-> TRUE, db |-> 30]}
PowerAfter == {[ok |-> FALSE, db |-> 0], [ok |-> TRUE, db |-> 12]}

CallZapline ==
    Idle /\
    \E enabled \in BOOLEAN, arg \in {NoneV, "RawArg", "EpochsArg", Other} :
       LET s0 == [hasValue |-> FALSE, value |-> [k \in {} |-> 0]]
           p0 == [ok |-> FALSE, db |-> 0]
           r0 == apply_zapline(Cur, enabled, s0, arg, 1, 100, p0, p0, "ok")
       IN \* the settings are read only by an enabled call that has an input
          IF DOMAIN r0.call.zargs = {} THEN Do(r0)
          ELSE \E settings \in ZaplineSettings :
               \* inst.info is read only if the object has one
               IF r0.call.nums = <<>>
               THEN Do(apply_zapline(Cur, enabled, settings, arg, 1, 100, p0, p0, "ok"))
               ELSE \E nchan \in ChannelCounts, sfreq \in SamplingRates :
                    LET r1 == apply_zapline(Cur, enabled, settings, arg, nchan,
                                            sfreq, p0, p0, "ok")
                    IN IF ~Reached(r1) THEN Do(r1)
                       ELSE \E pb \in PowerBefore, pa \in PowerAfter,
                               outcome \in ZaplineOutcomes :
                               Do(apply_zapline(Cur, enabled, settings, arg, nchan,
                                                sfreq, pb, pa, outcome))

WaveletLevels ==
    {[kind |-> "absent", n |-> 0, s |-> ""], [kind |-> "int", n |-> 3, s |-> ""],
     [kind |-> "int", n |-> -1, s |-> ""], [kind |-> "str", n |-> 0, s |-> "auto"],
     [kind |-> "str", n |-> 0, s |-> "AUTO"], [kind |-> "str", n |-> 0, s |-> "max"]}
WaveletScales ==
    {[kind |-> "absent", n |-> 0], [kind |-> "num", n |-> 2],
     [kind |-> "num", n |-> 0], [kind |-> "num", n |-> -1], [kind |-> "bad", n |-> 0]}
WaveletBandpasses ==
    {[kind |-> "absent", lo |-> 0, hi |-> 0], [kind |-> "none", lo |-> 0, hi |-> 0],
     [kind |-> "pair", lo |-> 30, hi |-> 1], [kind |-> "pair", lo |-> 5, hi |-> 5],
     [kind |-> "pair", lo |-> 1, hi |-> 30]}
WaveletExtras == {"none", "bad_psd_fmax", "bad_filter_kwargs"}

CallWaveletThreshold ==
    Idle /\
    \E enabled \in BOOLEAN, arg \in {NoneV, "RawArg", Other} :
       LET r0 == apply_wavelet_threshold(Cur, enabled, NoCall.wcfg, arg, "ok")
       IN \* the settings are read only by an enabled call that has an input
          IF r0.call.result = "return" /\ r0.call.algs = {} THEN Do(r0)
          ELSE \E level \in WaveletLevels, scale \in WaveletScales,
                  bandpass \in WaveletBandpasses, extra \in WaveletExtras :
               LET w == [level |-> level, scale |-> scale, bandpass |-> bandpass,
                         extra |-> extra]
                   r1 == apply_wavelet_threshold(Cur, enabled, w, arg, "ok")
               IN IF r1.call.result = "raise" /\ r1.call.fail = "none" THEN Do(r1)
                  ELSE \E outcome \in WaveletOutcomes :
                       Do(apply_wavelet_threshold(Cur, enabled, w, arg, outcome))

Next ==
    \/ CallAutoreject
    \/ CallZapline
    \/ CallWaveletThreshold
    \/ CallSourceLocalization
    \/ CallSourcePSD
    \/ CallSourceConnectivity
    \/ CallFooofAperiodic
    \/ CallFooofPeriodic

Spec == Init /\ [][Next]_vars

(***************************************************************************)
(* Vocabulary of the properties: the call just made, read from `call`, and *)
(* the state it started from, read from `pre`.                             *)
(***************************************************************************)
Called == call.step # "none"

\* host attributes, metadata and files are as they were before the call
Unchanged == Cur = pre

AnalysisSteps == {"apply_source_localization", "apply_source_psd",
                  "apply_source_connectivity", "apply_fooof_aperiodic",
                  "apply_fooof_periodic"}
RawSteps == {"apply_zapline", "apply_wavelet_threshold"}

\* the host attributes a step falls back to, in the order it tries them
FallbackOrder ==
    [k \in AnalysisSteps \cup RawSteps \cup {"apply_autoreject"} |->
        CASE k = "apply_source_localization" -> <<"epochs", "raw">>
          [] k = "apply_source_psd" -> <<"source_eeg", "stc_list", "stc">>
          [] k = "apply_source_connectivity" -> <<"stc">>
          [] k = "apply_fooof_aperiodic" -> <<"stc">>
          [] k = "apply_fooof_periodic" -> <<"stc_psd">>
          [] k = "apply_autoreject" -> <<"epochs">>
          [] OTHER -> <<"raw">>]

Missing(h, a) == h[a] \in {Absent, NoneV}

\* the object the call works on: the explicit argument, else the first
\* fallback attribute that holds one, else None
ResolvedInput ==
    IF call.arg # NoneV THEN call.arg
    ELSE LET order == FallbackOrder[call.step]
             avail == {i \in 1..Len(order) : ~Missing(pre.host, order[i])}
         IN IF avail = {} THEN NoneV
            ELSE pre.host[order[CHOOSE i \in avail : \A j \in avail : i <= j]]

\* the container types a step is written for
Expected(x) ==
    CASE call.step = "apply_source_localization" -> IsBaseRaw(x) \/ IsBaseEpochs(x)
      [] call.step = "apply_autoreject" -> IsMneEpochs(x)
      [] call.step = "apply_source_psd" ->
            IsBaseRaw(x) \/ IsBaseEpochs(x) \/ IsSourceEstimate(x) \/ IsList(x)
      [] call.step \in RawSteps -> IsBaseRaw(x) \/ IsBaseEpochs(x)
      [] OTHER -> IsSourceEstimate(x)

\* the value a disabled step is documented to return
Sentinel ==
    IF call.step \in {"apply_source_localization", "apply_autoreject"} THEN <<NoneV>>
    ELSE IF call.step \in RawSteps THEN <<ResolvedInput>>
    ELSE <<NoneV, NoneV>>

(***************************************************************************)
(* C1: a step that _check_step_enabled reports as disabled returns its     *)
(* documented sentinel (None; (None, None); the original input object for  *)
(* zapline and wavelet), calls no algorithm, and changes no host           *)
(* attribute, no metadata entry and no file.                               *)
(***************************************************************************)
C1_DisabledIsNoOp ==
    (Called /\ ~call.enabled) =>
        /\ call.result = "return"
        /\ call.ret = Sentinel
        /\ call.algs = {}
        /\ Unchanged

\* a disabled zapline call handed a Raw object gives that object back
C1_Witness ==
    /\ call.step = "apply_zapline"
    /\ ~call.enabled
    /\ call.arg = "RawArg"
    /\ call.ret = <<"RawArg">>

(***************************************************************************)
(* C2, as stated: an enabled step called without an explicit input, none   *)
(* of whose fallback attributes is present (absent or None), raises        *)
(* AttributeError and leaves host, metadata and files as they were.        *)
(***************************************************************************)
C2_MissingInputRaisesAttributeError ==
    (Called /\ call.enabled /\ ResolvedInput = NoneV) =>
        /\ call.result = "raise"
        /\ call.exc = "AttributeError"
        /\ Unchanged

(***************************************************************************)
(* C2, amended: in that situation host, metadata and files are unchanged   *)
(* and no algorithm is called; the five analysis steps raise               *)
(* AttributeError; apply_autoreject raises AttributeError when self.epochs *)
(* is absent and TypeError when it is None; apply_zapline and              *)
(* apply_wavelet_threshold log a warning and return None without raising.  *)
(***************************************************************************)
C2_MissingInputPerStep ==
    (Called /\ call.enabled /\ ResolvedInput = NoneV) =>
        /\ Unchanged
        /\ call.algs = {}
        /\ IF call.step \in RawSteps
           THEN /\ call.result = "return"
                /\ call.ret = <<NoneV>>
                /\ "warning" \in call.log
           ELSE /\ call.result = "raise"
                /\ call.exc = IF call.step = "apply_autoreject"
                                 /\ pre.host.epochs = NoneV
                              THEN "TypeError" ELSE "AttributeError"

\* an enabled source localization on a host whose epochs and raw are None
C2_Witness ==
    /\ call.step = "apply_source_localization"
    /\ call.enabled
    /\ call.arg = NoneV
    /\ pre.host.epochs = NoneV
    /\ pre.host.raw = NoneV
    /\ call.exc = "AttributeError"

(***************************************************************************)
(* C3: in every enabled step an input (explicit or resolved from the host) *)
(* that is not of an expected container type raises TypeError before the   *)
(* algorithm is called and before anything is written.                     *)
(***************************************************************************)
C3_WrongTypeRaisesTypeError ==
    (Called /\ call.enabled /\ ResolvedInput # NoneV /\ ~Expected(ResolvedInput)) =>
        /\ call.result = "raise"
        /\ call.exc = "TypeError"
        /\ call.algs = {}
        /\ Unchanged

(***************************************************************************)
(* C4: with a configuration entry {enabled: True, value: {...}}, every     *)
(* parameter present under "value" is the one handed to the algorithm, and *)
(* a parameter absent from it keeps the caller's keyword argument.         *)
(***************************************************************************)
C4_ConfigValueOverridesCaller ==
    (Called /\ call.enabled /\ call.algs # {} /\ call.cfg.hasValue) =>
        \A k \in DOMAIN call.kw :
            call.args[k] = Get(call.cfg.value, k, call.kw[k])

\* the delegated computation of the call raised
ComputationFailed ==
    \/ call.step = "apply_autoreject" /\ call.fail = "fit"
    \/ call.step = "apply_source_localization"
          /\ call.fail \in {"export", "status", "read"}
    \/ call.step = "apply_source_psd" /\ call.fail \in {"alg", "band_plots"}
    \/ call.step = "apply_source_connectivity" /\ call.fail = "alg"
    \/ call.step = "apply_fooof_aperiodic" /\ call.fail \in {"psd", "fit"}
    \/ call.step = "apply_fooof_periodic" /\ call.fail = "alg"
    \/ call.step = "apply_zapline" /\ call.fail \in {"dss_fail", "dss_dep"}
    \/ call.step = "apply_wavelet_threshold" /\ call.fail = "denoise"

WrappedInRuntimeError ==
    /\ call.result = "raise"
    /\ call.exc = "RuntimeError"
    /\ call.embeds
    /\ call.cause # NoExc

C6_RaiseLeavesNothing == (Called /\ call.result = "raise") => Unchanged

\* the failure points of each step that lie before its first write
\* ("none": a prerequisite, type or validation error)
FailuresBeforeFirstWrite ==
    [k \in AnalysisSteps \cup RawSteps \cup {"apply_autoreject"} |->
        CASE k = "apply_autoreject" -> {"none", "fit", "meta"}
          [] k = "apply_source_localization" ->
                {"none", "export", "status", "read", "copy_set"}
          [] k = "apply_source_psd" -> {"none", "alg"}
          [] k = "apply_source_connectivity" -> {"none"}
          [] k = "apply_fooof_aperiodic" -> {"none", "psd"}
          [] k = "apply_fooof_periodic" -> {"none", "alg"}
          [] k = "apply_zapline" -> {"none", "dss_dep", "update"}
          [] OTHER -> {"none", "get_data", "denoise"}]

\* the result attributes the analysis steps assign as their last statement
LastAssigned == {"source_psd_df", "fooof_aperiodic_df", "fooof_periodic_df",
                 "stc_psd", "source_connectivity_df"}

(***************************************************************************)
(* C6, amended: there is no rollback.  A call that raises before its first *)
(* write leaves host, metadata and files as before; a call that raises     *)
(* later keeps what it had already written, and only the result attributes *)
(* assigned last (source_psd_df, fooof_aperiodic_df, fooof_periodic_df,    *)
(* stc_psd, source_connectivity_df) are then guaranteed to be unchanged.   *)
(***************************************************************************)
C6_RaiseKeepsEarlierWrites ==
    (Called /\ call.result = "raise") =>
        /\ call.fail \in FailuresBeforeFirstWrite[call.step] => Unchanged
        /\ \A a \in LastAssigned : host[a] = pre.host[a]

\* _save_epochs_result failed: the metadata entry and self.epochs stay
C6_Witness ==
    /\ call.step = "apply_autoreject"
    /\ call.result = "raise"
    /\ call.fail = "save"
    /\ metadata["step_apply_autoreject"] # <<>>
    /\ host.epochs = "EpochsClean"
    /\ pre.host.epochs = "Epochs"

\* a report, plot or visualization of the call failed
ReportFailed ==
    \/ call.step \in {"apply_autoreject", "apply_wavelet_threshold"}
          /\ call.fail = "report_fail"
    \/ call.step = "apply_source_psd" /\ call.fail \in {"band_plots", "visualization"}

(***************************************************************************)
(* C7: in apply_autoreject, apply_wavelet_threshold and apply_source_psd a *)
(* failed report, plot or visualization never aborts the step: it returns  *)
(* its primary result, stores it on the host and writes its metadata.      *)
(***************************************************************************)
C7_ReportFailureIsolated ==
    (Called /\ ReportFailed) =>
        /\ call.result = "return"
        /\ CASE call.step = "apply_autoreject" ->
                    /\ call.ret = <<"EpochsClean">>
                    /\ host.epochs = "EpochsClean"
                    /\ metadata["step_apply_autoreject"] # <<>>
             [] call.step = "apply_source_psd" ->
                    /\ host.source_psd_df = "PsdDF"
                    /\ metadata["step_apply_source_psd"] # <<>>
             [] OTHER ->
                    /\ call.ret = <<Cleaned(ResolvedInput)>>
                    /\ pre.host.raw = ResolvedInput => host.raw = call.ret[1]
                    /\ metadata["step_wavelet_threshold"] # <<>>

(***************************************************************************)
(* C8: an enabled apply_zapline on an input with fewer than 2 channels or  *)
(* with fline >= sfreq / 2 returns the original input, logs an error, does *)
(* not raise, calls neither apply_zapline_dss nor any other algorithm, and *)
(* updates, saves and records nothing.                                     *)
(***************************************************************************)
C8_ZaplineRejectsUnusableInput ==
    (/\ call.step = "apply_zapline"
     /\ call.enabled
     /\ call.nums # <<>>
     /\ (call.nums[1] < 2 \/ 2 * call.zargs.fline >= call.nums[2])) =>
        /\ call.result = "return"
        /\ call.ret = <<ResolvedInput>>
        /\ "error" \in call.log
        /\ call.algs = {}
        /\ Unchanged

\* one channel, 60 Hz line frequency well below the Nyquist frequency
C8_Witness ==
    /\ call.step = "apply_zapline"
    /\ call.enabled
    /\ call.nums = <<1, 250>>
    /\ call.zargs.fline = 60
    /\ call.result = "return"

\* the settings the claim lists as invalid; auto is the set of level strings
\* that count as 'auto'
InvalidSettings(w, auto) ==
    \/ w.bandpass.kind = "pair" /\ w.bandpass.lo >= w.bandpass.hi
    \/ w.scale.kind = "bad"
    \/ w.scale.kind = "num" /\ w.scale.n <= 0
    \/ w.level.kind = "int" /\ w.level.n < 0
    \/ w.level.kind = "str" /\ w.level.s \notin auto

RejectedBeforeDenoising ==
    /\ call.result = "raise"
    /\ call.exc = "ValueError"
    /\ call.algs = {}
    /\ Unchanged

(***************************************************************************)
(* C9, as stated: apply_wavelet_threshold (enabled, with an input) raises  *)
(* ValueError before wavelet_threshold is called and before anything is    *)
(* written when bandpass has low >= high, threshold_scale is <= 0 or not   *)
(* numeric, level is a negative integer, or level is a string other than   *)
(* 'auto'.                                                                 *)
(***************************************************************************)
C9_InvalidSettingsRejected ==
    (/\ call.step = "apply_wavelet_threshold"
     /\ call.enabled
     /\ ResolvedInput # NoneV
     /\ InvalidSettings(call.wcfg, {"auto"})) => RejectedBeforeDenoising

(***************************************************************************)
(* C9, amended: the same, with the level string compared to 'auto' without *)
(* regard to letter case ('AUTO' and 'Auto' are accepted as 'auto').       *)
(***************************************************************************)
C9_InvalidSettingsRejectedAnyCase ==
    (/\ call.step = "apply_wavelet_threshold"
     /\ call.enabled
     /\ ResolvedInput # NoneV
     /\ InvalidSettings(call.wcfg, {"auto", "AUTO", "Auto"})) =>
        RejectedBeforeDenoising

\* a bandpass of (30, 1) with otherwise valid settings is rejected
C9_Witness ==
    /\ call.step = "apply_wavelet_threshold"
    /\ call.enabled
    /\ call.arg = "RawArg"
    /\ call.wcfg.bandpass = [kind |-> "pair", lo |-> 30, hi |-> 1]
    /\ call.wcfg.level.kind = "absent"
    /\ call.wcfg.scale.kind = "absent"
    /\ call.exc = "ValueError"

\* the autoreject metadata entry written by the call, if any
AutorejectEntry == metadata["step_apply_autoreject"]

(***************************************************************************)
(* C10, as stated: in apply_autoreject the epochs after cleaning are never *)
(* more than before, and the rejection_percent written to metadata equals  *)
(* (before - after) / before * 100 exactly (0 when before is 0).           *)
(* rejection_percent is held in hundredths of a percent.                   *)
(***************************************************************************)
C10_RejectionPercentExact ==
    (call.step = "apply_autoreject" /\ AutorejectEntry # <<>>) =>
        LET md == AutorejectEntry[1]
            before == call.nums[1]
            after == call.nums[2]
        IN /\ after <= before
           /\ md.initial_epochs = before /\ md.final_epochs = after
           /\ IF before = 0 THEN md.rejection_percent = 0
              ELSE md.rejection_percent * before = (before - after) * 10000

(***************************************************************************)
(* C10, amended: the rejection_percent written to metadata is that value   *)
(* rounded to two decimal places, so it is within 0.005 of                 *)
(* (before - after) / before * 100 (and 0 when before is 0).               *)
(***************************************************************************)
C10_RejectionPercentRounded ==
    (call.step = "apply_autoreject" /\ AutorejectEntry # <<>>) =>
        LET md == AutorejectEntry[1]
            before == call.nums[1]
            after == call.nums[2]
            diff == md.rejection_percent * before - (before - after) * 10000
        IN /\ after <= before
           /\ md.initial_epochs = before /\ md.final_epochs = after
           /\ md.rejected_epochs = before - after
           /\ IF before = 0 THEN md.rejection_percent = 0
              ELSE 2 * diff <= before /\ -2 * diff <= before

\* one of three epochs rejected: 33.33 percent is recorded
C10_Witness ==
    /\ call.step = "apply_autoreject"
    /\ call.result = "return"
    /\ call.nums = <<3, 2>>
    /\ AutorejectEntry # <<>>
    /\ AutorejectEntry[1].rejection_percent = 3333

(***************************************************************************)
(* The algorithm functions are followed step by step in specifications of  *)
(* their own, in which the host object is not touched.                     *)
(***************************************************************************)
HostIdle ==
    /\ host = EmptyHost
    /\ metadata = [k \in MetaKeys |-> <<>>]
    /\ files = {}
    /\ call = NoCall
    /\ pre = State(host, metadata, files)
    /\ ncalls = 0

HostUntouched == UNCHANGED <<host, metadata, files, call, pre, ncalls>>

(***************************************************************************)
(* calculate_fooof_aperiodic.process_batch: one batch of vertices is       *)
(* fitted with the primary parameters, re-fitted with the fallback         *)
(* parameters (always aperiodic_mode "fixed") when the primary fit raises  *)
(* or its check fails, and one row per vertex is then built.  A fit        *)
(* returns, per vertex, parameters of one of the kinds below.              *)
(***************************************************************************)
MaxBatchVertices == 3

NoParams == [v \in {} |-> "valid"]

InitBatch ==
    /\ HostIdle
    /\ \E mode \in AperiodicModes, n \in 1..MaxBatchVertices :
          alg = [fn |-> "process_batch", mode |-> mode, n |-> n, pc |-> "primary",
                 columns |-> 0, params |-> NoParams, rows |-> <<>>,
                 fallback |-> FALSE, exc |-> NoExc]

InBatch(pc) == alg.fn = "process_batch" /\ alg.pc = pc

\* fg = FOOOFGroup(**fooof_params); fg.fit(...) raises
PrimaryFitRaises ==
    /\ InBatch("primary")
    /\ alg' = [alg EXCEPT !.pc = "fallback"]
    /\ HostUntouched

\* the primary fit returns; the check of the offsets sends the batch to the
\* fallback fit or on to the rows
PrimaryFitReturns ==
    /\ InBatch("primary")
    /\ \E params \in [1..alg.n -> ParamKinds] :
          alg' = IF some_fits_failed(params)
                 THEN [alg EXCEPT !.pc = "fallback"]
                 ELSE [alg EXCEPT !.pc = "rows", !.params = params,
                                  !.columns = ParamColumns(alg.mode)]
    /\ HostUntouched

\* the fallback fit raises too: every vertex gets a FITTING_FAILED row
FallbackFitRaises ==
    /\ InBatch("fallback")
    /\ alg' = [alg EXCEPT !.pc = "done", !.fallback = TRUE,
                          !.rows = [v \in 1..alg.n |->
                                       [vertex |-> v, status |-> "FITTING_FAILED"]]]
    /\ HostUntouched

\* the fallback fit returns fixed-mode parameters
FallbackFitReturns ==
    /\ InBatch("fallback")
    /\ \E params \in [1..alg.n -> ParamKinds] :
          alg' = [alg EXCEPT !.pc = "rows", !.fallback = TRUE, !.params = params,
                             !.columns = ParamColumns("fixed")]
    /\ HostUntouched

\* one pass of "for i, vertex_idx in enumerate(vertices)"
BuildRow ==
    /\ InBatch("rows")
    /\ Len(alg.rows) < alg.n
    /\ LET v == Len(alg.rows) + 1
           status == row_status(alg.mode, alg.columns, alg.params[v])
       IN alg' = IF status = "IndexError"
                 THEN [alg EXCEPT !.pc = "raised", !.exc = "IndexError"]
                 ELSE [alg EXCEPT !.rows = Append(alg.rows,
                                               [vertex |-> v, status |-> status])]
    /\ HostUntouched

\* return results
ReturnRows ==
    /\ InBatch("rows")
    /\ Len(alg.rows) = alg.n
    /\ alg' = [alg EXCEPT !.pc = "done"]
    /\ HostUntouched

NextBatch ==
    \/ PrimaryFitRaises
    \/ PrimaryFitReturns
    \/ FallbackFitRaises
    \/ FallbackFitReturns
    \/ BuildRow
    \/ ReturnRows

SpecBatch == InitBatch /\ [][NextBatch]_vars

RowStatuses == {alg.rows[k].status : k \in 1..Len(alg.rows)}

\* rows are only ever appended: a row, once built, stays as it is
RowsKept ==
    /\ Len(alg'.rows) >= Len(alg.rows)
    /\ \A k \in 1..Len(alg.rows) : alg'.rows[k] = alg.rows[k]

\* row k is the row of vertex k
OneRowPerVertex ==
    /\ Len(alg.rows) <= alg.n
    /\ \A k \in 1..Len(alg.rows) : alg.rows[k].vertex = k
    /\ alg.pc = "done" => Len(alg.rows) = alg.n

(***************************************************************************)
(* C11, as stated: every row of calculate_fooof_aperiodic has a status in  *)
(* {SUCCESS, NAN_PARAMS, INVALID_PARAMS, FITTING_FAILED}, in both modes.   *)
(***************************************************************************)
C11_FourStatuses ==
    RowStatuses \subseteq {"SUCCESS", "NAN_PARAMS", "INVALID_PARAMS", "FITTING_FAILED"}

(***************************************************************************)
(* C11, amended: every row has exactly one status out of SUCCESS,          *)
(* NAN_PARAMS, INVALID_PARAMS (knee mode, knee or exponent <= 0),          *)
(* INVALID_EXPONENT (fixed mode, exponent <= 0) and FITTING_FAILED; there  *)
(* is one row per vertex and a row, once built, never changes.             *)
(***************************************************************************)
C11_FiveStatuses ==
    /\ [](/\ RowStatuses \subseteq {"SUCCESS", "NAN_PARAMS", "INVALID_PARAMS",
                                    "INVALID_EXPONENT", "FITTING_FAILED"}
          /\ "INVALID_PARAMS" \in RowStatuses => alg.mode = "knee"
          /\ "INVALID_EXPONENT" \in RowStatuses => alg.mode = "fixed"
          /\ OneRowPerVertex)
    /\ [][RowsKept]_vars

\* a finished fixed-mode batch with a vertex whose exponent is not positive
C11_Witness ==
    /\ InBatch("done")
    /\ alg.mode = "fixed"
    /\ alg.n = 2
    /\ alg.rows[1].status = "INVALID_EXPONENT"
    /\ alg.rows[2].status = "SUCCESS"

(***************************************************************************)
(* C12: process_batch never lets a failed fit out as an exception: however *)
(* the primary fit, its check and the fallback fit end, it returns one     *)
(* status-tagged row per vertex, also in knee mode after the fallback fit. *)
(***************************************************************************)
C12_BatchNeverRaises ==
    /\ alg.pc # "raised"
    /\ alg.pc = "done" => Len(alg.rows) = alg.n

\* the call built (or tried to build) the table of fits, and no vertex of
\* it was fitted with valid parameters
NoVertexSucceeds ==
    /\ call.step = "apply_fooof_aperiodic"
    /\ call.fit.path # "none"
    /\ \/ call.fit.path = "both_fail"
       \/ \A v \in DOMAIN call.fit.params : call.fit.params[v] # "valid"

(***************************************************************************)
(* C13: apply_fooof_aperiodic completes normally when no vertex fit        *)
(* succeeds: it returns the table and the file path, writes metadata with  *)
(* success_rate 0 and stores fooof_aperiodic_df and stc_psd on the host,   *)
(* so that apply_fooof_periodic finds its input.  (A failing metadata call *)
(* of the host is a different failure and is left aside.)                  *)
(***************************************************************************)
C13_AllFitsFailedCompletes ==
    (NoVertexSucceeds /\ call.fail # "meta") =>
        /\ call.result = "return"
        /\ call.ret = <<"AperiodicDF", "fooof_aperiodic.parquet">>
        /\ metadata["step_apply_fooof_aperiodic"] # <<>>
        /\ metadata["step_apply_fooof_aperiodic"][1].success_rate = 0
        /\ host.fooof_aperiodic_df = "AperiodicDF"
        /\ host.stc_psd = "StcPsd"

(***************************************************************************)
(* calculate_source_connectivity, one method/band combination at a time    *)
(***************************************************************************)
MaxConnMethods == 2
MaxBands == 2

conn_methods == <<"wpli", "plv", "coh", "pli">>
bands == <<"delta", "theta", "alpha", "beta", "gamma">>

\* the methods and bands of a run, cut to the bounds
Min(a, b) == IF a < b THEN a ELSE b
RunMethods == SubSeq(conn_methods, 1, Min(MaxConnMethods, Len(conn_methods)))
RunBands == SubSeq(bands, 1, Min(MaxBands, Len(bands)))
include_aec == TRUE

\* the combinations in the order of the two loops: the spectral methods,
\* band by band, then the amplitude envelope correlation
SpectralCount == Len(RunMethods) * Len(RunBands)
CombinationCount == SpectralCount + (IF include_aec THEN Len(RunBands) ELSE 0)
Combination(i) ==
    IF i <= SpectralCount
    THEN <<RunMethods[((i - 1) \div Len(RunBands)) + 1],
           RunBands[((i - 1) % Len(RunBands)) + 1]>>
    ELSE <<"aec", RunBands[i - SpectralCount]>>
Combinations == {Combination(i) : i \in 1..CombinationCount}

InitConnectivity ==
    /\ HostIdle
    /\ alg = [fn |-> "calculate_source_connectivity", pc |-> "combinations",
              i |-> 1, connectivity_data |-> {}, skipped |-> {},
              matrices |-> {}, files |-> {"connectivity_log.txt"}, conn_df |-> "none",
              summary_path |-> "none", exc |-> NoExc]

InConnectivity(pc) == alg.fn = "calculate_source_connectivity" /\ alg.pc = pc

\* the body of the try block ran to its end: the matrix file is written
\* and the rows of the combination are appended
combination_rows(a) ==
    [a EXCEPT !.connectivity_data = @ \cup {Combination(a.i)},
              !.matrices = @ \cup {Combination(a.i)},
              !.i = @ + 1]

\* except Exception: the error is logged and the loop continues
combination_skipped(a) ==
    [a EXCEPT !.skipped = @ \cup {Combination(a.i)}, !.i = @ + 1]

SpectralSucceeds ==
    /\ InConnectivity("combinations")
    /\ alg.i <= SpectralCount
    /\ alg' = combination_rows(alg)
    /\ HostUntouched

SpectralThrows ==
    /\ InConnectivity("combinations")
    /\ alg.i <= SpectralCount
    /\ alg' = combination_skipped(alg)
    /\ HostUntouched

AecSucceeds ==
    /\ InConnectivity("combinations")
    /\ alg.i > SpectralCount /\ alg.i <= CombinationCount
    /\ alg' = combination_rows(alg)
    /\ HostUntouched

AecThrows ==
    /\ InConnectivity("combinations")
    /\ alg.i > SpectralCount /\ alg.i <= CombinationCount
    /\ alg' = combination_skipped(alg)
    /\ HostUntouched

\* the summary table: with rows it is saved, without it is pd.DataFrame(),
\* a table with no column, and the path is None
SaveSummary ==
    /\ InConnectivity("combinations")
    /\ alg.i > CombinationCount
    /\ alg' = IF alg.connectivity_data # {}
              THEN [alg EXCEPT !.pc = "graph", !.conn_df = "rows",
                               !.summary_path = "connectivity_summary.csv",
                               !.files = @ \cup {"connectivity_summary.csv"}]
              ELSE [alg EXCEPT !.pc = "graph", !.conn_df = "empty",
                               !.summary_path = NoneV]
    /\ HostUntouched

\* the graph metrics select conn_df["method"] and conn_df["band"] for the
\* first combination, outside any try block: KeyError on the table with no
\* column.  Otherwise every failure is caught per combination and the
\* metrics file is written when any combination gave metrics.
GraphMetrics ==
    /\ InConnectivity("graph")
    /\ IF alg.conn_df = "empty" /\ CombinationCount > 0
       THEN alg' = [alg EXCEPT !.pc = "raised", !.exc = "KeyError"]
       ELSE \E saved \in BOOLEAN :
            alg' = [alg EXCEPT !.pc = "done",
                               !.files = IF saved THEN @ \cup {"graph_metrics.csv"}
                                         ELSE @]
    /\ HostUntouched

NextConnectivity ==
    \/ SpectralSucceeds
    \/ SpectralThrows
    \/ AecSucceeds
    \/ AecThrows
    \/ SaveSummary
    \/ GraphMetrics

SpecConnectivity == InitConnectivity /\ [][NextConnectivity]_vars

(***************************************************************************)
(* C14: calculate_source_connectivity skips every method/band combination  *)
(* that throws and returns normally with the rows of the combinations that *)
(* succeeded, whichever combinations fail, all of them included (then the  *)
(* table is empty and the summary path is None).                           *)
(***************************************************************************)
C14_FailedCombinationsSkipped ==
    /\ ~InConnectivity("raised")
    /\ InConnectivity("done") =>
          /\ alg.connectivity_data = Combinations \ alg.skipped
          /\ alg.connectivity_data = {} <=>
                (alg.conn_df = "empty" /\ alg.summary_path = NoneV)

(***************************************************************************)
(* C15: apply_source_psd takes its input in a fixed order: the explicit    *)
(* argument, else self.source_eeg (ROI mode), else self.stc_list, else     *)
(* self.stc (vertex mode).  An attribute is used only when every one       *)
(* before it is absent or None, and AttributeError is raised exactly when  *)
(* there is no argument and all three are absent or None.                  *)
(***************************************************************************)
C15_InputPriority ==
    (call.step = "apply_source_psd" /\ call.enabled) =>
        LET h == pre.host
            none == /\ call.arg = NoneV
                    /\ Missing(h, "source_eeg")
                    /\ Missing(h, "stc_list")
                    /\ Missing(h, "stc")
            raised == call.result = "raise" /\ call.exc = "AttributeError"
        IN /\ none <=> raised
           /\ none => call.flags \cap {"roi_mode", "vertex_mode"} = {} /\ Unchanged
           /\ ~none /\ call.arg # NoneV => call.inst = call.arg
           /\ ~none /\ call.arg = NoneV =>
                 IF ~Missing(h, "source_eeg")
                 THEN call.inst = h.source_eeg /\ "roi_mode" \in call.flags
                 ELSE IF ~Missing(h, "stc_list")
                 THEN call.inst = h.stc_list /\ "vertex_mode" \in call.flags
                 ELSE call.inst = h.stc /\ "vertex_mode" \in call.flags

\* the last fallback was used: no argument, no ROI data and no list, and
\* the call returned the spectra of self.stc
C15_Witness ==
    /\ call.step = "apply_source_psd"
    /\ call.enabled
    /\ call.arg = NoneV
    /\ pre.host.source_eeg = NoneV
    /\ pre.host.stc_list = Absent
    /\ call.inst = "STC"
    /\ "vertex_mode" \in call.flags
    /\ call.result = "return"

(***************************************************************************)
(* Segment selection of calculate_roi_psd and calculate_source_psd_list.   *)
(* Durations are whole numbers of one time unit; the crop times of a Raw   *)
(* are kept doubled so that the halving stays exact.                       *)
(***************************************************************************)
MaxSegEpochs == 4
MaxEpochDuration == 3
MaxSegment == 6

\* segment_duration: None, or a number of time units
NoDuration == [none |-> TRUE, d |-> 0]
Duration(d) == [none |-> FALSE, d |-> d]

\* np.ceil(a / b) for b > 0
Ceil(a, b) == -((-a) \div b)

NoSegment == [all |-> FALSE, start_idx |-> 0, n_epochs |-> 0,
              tmin2 |-> 0, tmax2 |-> 0, exc |-> NoExc]

\* the middle epochs: n_epochs_needed, start_idx and the slice
\* data[start_idx : start_idx + n_epochs_needed], empty when the count is
\* not positive; a division by a zero epoch duration gives -inf, which
\* int() refuses
middle_epochs(n, epoch_duration, segment_duration) ==
    IF epoch_duration = 0 THEN [NoSegment EXCEPT !.exc = "OverflowError"]
    ELSE
    LET needed == Min(Ceil(segment_duration.d, epoch_duration), n)
        start_idx == (n - needed) \div 2
    IN [NoSegment EXCEPT !.start_idx = start_idx,
                         !.n_epochs = IF needed > 0 THEN needed ELSE 0]

all_data(n) == [NoSegment EXCEPT !.all = TRUE, !.n_epochs = n]

\* calculate_roi_psd: a Raw (one stretch of total_duration) is cropped
\* around its middle, Epochs are sliced
roi_segment(is_raw, n, epoch_duration, segment_duration) ==
    LET total_duration == epoch_duration * n IN
    IF ~segment_duration.none /\ segment_duration.d < total_duration
    THEN IF is_raw
         THEN LET tmin2 == total_duration - segment_duration.d
                  tmax2 == tmin2 + 2 * segment_duration.d
              IN IF tmin2 > tmax2 \/ tmin2 > 2 * total_duration
                 THEN [NoSegment EXCEPT !.exc = "ValueError"]
                 ELSE [NoSegment EXCEPT !.tmin2 = tmin2, !.tmax2 = tmax2,
                                        !.n_epochs = 1]
         ELSE middle_epochs(n, epoch_duration, segment_duration)
    ELSE [all_data(n) EXCEPT !.tmax2 = IF is_raw THEN 2 * total_duration ELSE 0]

\* calculate_source_psd_list: a list of source estimates, one per epoch
stc_list_segment(n, epoch_duration, segment_duration) ==
    LET total_duration == epoch_duration * n IN
    IF ~segment_duration.none /\ segment_duration.d < total_duration
    THEN middle_epochs(n, epoch_duration, segment_duration)
    ELSE all_data(n)

SegmentDurations == {NoDuration} \cup {Duration(d) : d \in -1..MaxSegment}

InitSegment ==
    /\ HostIdle
    /\ \E fn \in {"calculate_roi_psd", "calculate_source_psd_list"},
          is_raw \in BOOLEAN, n \in 1..MaxSegEpochs,
          d \in 0..MaxEpochDuration, seg \in SegmentDurations :
          /\ is_raw => fn = "calculate_roi_psd" /\ n = 1
          /\ alg = [fn |-> fn, pc |-> "start", is_raw |-> is_raw, n |-> n,
                    epoch_duration |-> d, segment_duration |-> seg,
                    segment |-> NoSegment]

SelectRoiSegment ==
    /\ alg.fn = "calculate_roi_psd" /\ alg.pc = "start"
    /\ LET r == roi_segment(alg.is_raw, alg.n, alg.epoch_duration,
                            alg.segment_duration)
       IN alg' = [alg EXCEPT !.segment = r,
                             !.pc = IF r.exc = NoExc THEN "selected" ELSE "raised"]
    /\ HostUntouched

SelectStcListSegment ==
    /\ alg.fn = "calculate_source_psd_list" /\ alg.pc = "start"
    /\ LET r == stc_list_segment(alg.n, alg.epoch_duration, alg.segment_duration)
       IN alg' = [alg EXCEPT !.segment = r,
                             !.pc = IF r.exc = NoExc THEN "selected" ELSE "raised"]
    /\ HostUntouched

NextSegment ==
    \/ SelectRoiSegment
    \/ SelectStcListSegment

SpecSegment == InitSegment /\ [][NextSegment]_vars

\* the call is past its segment selection, on epochs (not on a Raw)
EpochsSelected ==
    /\ alg.fn \in {"calculate_roi_psd", "calculate_source_psd_list"}
    /\ alg.pc = "selected"
    /\ ~alg.is_raw

TotalDuration == alg.epoch_duration * alg.n

AllDataAsked ==
    alg.segment_duration.none \/ alg.segment_duration.d >= TotalDuration

\* the selected epochs [start_idx, start_idx + n_epochs) are epochs of the
\* input, as many before them as after them, up to one
WithinAndCentred ==
    LET s == alg.segment IN
    /\ s.start_idx >= 0
    /\ s.start_idx + s.n_epochs <= alg.n
    /\ (alg.n - s.start_idx - s.n_epochs) - s.start_idx \in {0, 1}

(***************************************************************************)
(* C16: the segment processed by calculate_roi_psd and                     *)
(* calculate_source_psd_list never exceeds the signal: with                *)
(* segment_duration None or >= the total duration all data is used, else   *)
(* min(ceil(segment_duration / epoch_duration), number of epochs) epochs   *)
(* are selected, within the input and centred, and at least one of them.   *)
(***************************************************************************)
C16_SegmentWithinSignal ==
    EpochsSelected =>
        IF AllDataAsked
        THEN alg.segment.all /\ alg.segment.n_epochs = alg.n
        ELSE /\ alg.segment.n_epochs =
                    Min(Ceil(alg.segment_duration.d, alg.epoch_duration), alg.n)
             /\ WithinAndCentred
             /\ alg.segment.n_epochs >= 1

(***************************************************************************)
(* The temporary directory of apply_source_localization and of             *)
(* estimate_source_function_raw / estimate_source_function_epochs: the     *)
(* file exchange with SequentialProcessor, one statement group at a time.  *)
(***************************************************************************)
TempDirFns == {"apply_source_localization", "estimate_source_function_raw",
               "estimate_source_function_epochs"}

\* what process_file leaves next to its output .set file
CompanionFiles == {"output.fdt", "temp_input_region_info.csv"}

MaxLocalizationCalls == 2

\* the entry of call number k; the files of earlier calls are still in
\* the derivatives directory
enter_call(fn, is_raw, k, outputs) ==
    [fn |-> fn, pc |-> "start", is_raw |-> is_raw, calls |-> k,
     made |-> FALSE, tmpdir |-> FALSE, tmpfiles |-> {},
     outputs |-> outputs, source_data |-> NoneV,
     exc |-> NoExc, cause |-> NoExc, at |-> "none"]

TempDirInputs ==
    {in \in [fn : TempDirFns, is_raw : BOOLEAN] :
        /\ in.fn = "estimate_source_function_raw" => in.is_raw
        /\ in.fn = "estimate_source_function_epochs" => ~in.is_raw}

InitTempDir ==
    /\ HostIdle
    /\ \E in \in TempDirInputs : alg = enter_call(in.fn, in.is_raw, 1, {})

InTempDirFn(pc) == alg.fn \in TempDirFns /\ alg.pc = pc

\* variant: the directory is removed by a statement at the end of the
\* block, which an exception skips
leave_with_block_on_return_only(a, exc) ==
    IF exc = NoExc THEN [a EXCEPT !.tmpdir = FALSE, !.tmpfiles = {}] ELSE a

\* TemporaryDirectory.__exit__: the directory and all it holds are removed,
\* whether the block is left normally or by an exception
leave_with_block(a, exc) == [a EXCEPT !.tmpdir = FALSE, !.tmpfiles = {}]

\* an exception inside the with block: the block is left, and the mixin's
\* except clause turns the exception into a RuntimeError
raise_in_block(a, at, exc) ==
    [leave_with_block(a, exc) EXCEPT
        !.pc = "raised", !.at = at, !.cause = exc,
        !.exc = IF a.fn = "apply_source_localization" THEN "RuntimeError" ELSE exc]

EnterTempDir ==
    /\ InTempDirFn("start")
    /\ alg' = [alg EXCEPT !.pc = "export", !.made = TRUE, !.tmpdir = TRUE]
    /\ HostUntouched

\* data.export(tmp_input, fmt='eeglab', overwrite=True)
ExportInput ==
    /\ InTempDirFn("export")
    /\ \E ok \in BOOLEAN :
          alg' = IF ok THEN [alg EXCEPT !.pc = "process",
                                        !.tmpfiles = @ \cup {"temp_input.set"}]
                 ELSE raise_in_block(alg, "export", LibError)
    /\ HostUntouched

\* processor.process_file(tmp_input, tmpdir) and the test of its status
ProcessFile ==
    /\ InTempDirFn("process")
    /\ \E outcome \in {"success", "status", "raise"}, extra \in SUBSET CompanionFiles :
          alg' = CASE outcome = "success" ->
                        [alg EXCEPT !.pc = "read",
                                    !.tmpfiles = @ \cup {"output.set"} \cup extra]
                   [] outcome = "status" ->
                        raise_in_block([alg EXCEPT !.tmpfiles = @ \cup extra],
                                       "status", "RuntimeError")
                   [] OTHER ->
                        raise_in_block([alg EXCEPT !.tmpfiles = @ \cup extra],
                                       "process", LibError)
    /\ HostUntouched

\* mne.io.read_raw_eeglab / mne.read_epochs_eeglab; the two algorithm
\* functions leave the block and return here
ReadBack ==
    /\ InTempDirFn("read")
    /\ \E ok \in BOOLEAN :
          alg' = IF ~ok THEN raise_in_block(alg, "read", LibError)
                 ELSE LET a == [alg EXCEPT !.source_data =
                                     IF alg.is_raw THEN "SourceRaw" ELSE "SourceEpochs"]
                      IN IF alg.fn = "apply_source_localization"
                         THEN [a EXCEPT !.pc = "copy"]
                         ELSE [leave_with_block(a, NoExc) EXCEPT !.pc = "done"]
    /\ HostUntouched

\* the mixin copies the .set file, then the companion files that exist,
\* stores the result and leaves the block
CopyOutputs ==
    /\ InTempDirFn("copy")
    /\ \E outcome \in {"ok", "copy_set", "copy_rest"} :
          LET rest == {f \in CompanionFiles : f \in alg.tmpfiles} IN
          /\ outcome = "copy_rest" => rest # {}
          /\ alg' = CASE outcome = "copy_set" ->
                           raise_in_block(alg, "copy_set", LibError)
                      [] outcome = "copy_rest" ->
                           raise_in_block([alg EXCEPT !.outputs = @ \cup {"dk_regions.set"}],
                                          "copy_rest", LibError)
                      [] OTHER ->
                           [leave_with_block([alg EXCEPT !.outputs =
                                                 @ \cup {"dk_regions.set"} \cup rest],
                                             NoExc)
                               EXCEPT !.pc = "metadata"]
    /\ HostUntouched

\* after the block: the metadata update and the return of the mixin
UpdateLocalizationMetadata ==
    /\ InTempDirFn("metadata")
    /\ \E ok \in BOOLEAN :
          alg' = IF ok THEN [alg EXCEPT !.pc = "done"]
                 ELSE [alg EXCEPT !.pc = "raised", !.at = "metadata",
                                  !.cause = LibError, !.exc = "RuntimeError"]
    /\ HostUntouched

\* the task goes on to another localization call
CallLocalizationAgain ==
    /\ InTempDirFn("done") \/ InTempDirFn("raised")
    /\ alg.calls < MaxLocalizationCalls
    /\ \E in \in TempDirInputs :
          alg' = enter_call(in.fn, in.is_raw, alg.calls + 1, alg.outputs)
    /\ HostUntouched

NextTempDir ==
    \/ CallLocalizationAgain
    \/ EnterTempDir
    \/ ExportInput
    \/ ProcessFile
    \/ ReadBack
    \/ CopyOutputs
    \/ UpdateLocalizationMetadata

SpecTempDir == InitTempDir /\ [][NextTempDir]_vars

\* the call has ended, by a return or by an exception
TempDirCallEnded == InTempDirFn("done") \/ InTempDirFn("raised")

(***************************************************************************)
(* C17: the temporary directory that apply_source_localization and         *)
(* estimate_source_function_raw / _epochs create for the file exchange     *)
(* does not exist any more once the call has ended, however it ended: by a *)
(* normal return, after a non-success processor status, or by an exception *)
(* during export, processing, read-back or copying.                        *)
(***************************************************************************)
C17_TempDirRemoved ==
    (TempDirCallEnded \/ InTempDirFn("metadata")) =>
        /\ alg.made
        /\ ~alg.tmpdir
        /\ alg.tmpfiles = {}

\* the processor reported a failure after the input had been exported and
\* it had written a companion file into the directory
C17_Witness ==
    /\ InTempDirFn("raised")
    /\ alg.fn = "estimate_source_function_raw"
    /\ alg.at = "status"
    /\ alg.made
    /\ ~alg.tmpdir

(***************************************************************************)
(* A task run: run() of the example pipelines calls the steps one after    *)
(* the other on the same host, with no explicit input, and ends at the     *)
(* first step that raises.                                                 *)
(***************************************************************************)
Pipelines ==
    [SourceAnalysisPipeline |->
        <<"apply_source_localization", "apply_source_psd",
          "apply_source_connectivity">>,
     specparamAnalysisTest |->
        <<"apply_source_localization", "apply_fooof_aperiodic",
          "apply_fooof_periodic">>,
     RestingState_SourcePSD |->
        <<"apply_source_localization", "apply_source_psd">>]

\* the host after import_raw and the preprocessing steps: continuous data
\* with or without epochs, and possibly source estimates of an earlier
\* vertex-level localization
RunHosts ==
    {[EmptyHost EXCEPT !.raw = "Raw", !.run_id = b] : b \in BOOLEAN}
    \cup {[EmptyHost EXCEPT !.raw = "Raw", !.epochs = "Epochs"],
          [EmptyHost EXCEPT !.raw = "Raw", !.stc = "STC"],
          [EmptyHost EXCEPT !.raw = "Raw", !.epochs = "Epochs",
                            !.stc_list = "StcList"]}

InitRun ==
    /\ host \in RunHosts
    /\ metadata = [k \in MetaKeys |-> <<>>]
    /\ files = {}
    /\ call = NoCall
    /\ pre = State(host, metadata, files)
    /\ ncalls = 0
    /\ \E p \in DOMAIN Pipelines :
          alg = [fn |-> "run", pipeline |-> p, pos |-> 1, localized |-> FALSE,
                 prev |-> NoCall]

Running == alg.fn = "run" /\ alg.pos <= Len(Pipelines[alg.pipeline])

StepParams(step) ==
    CASE step = "apply_source_localization" -> SourceLocParams
      [] step = "apply_source_psd" -> SourcePSDParams
      [] step = "apply_source_connectivity" -> ConnectivityParams
      [] step = "apply_fooof_aperiodic" -> FooofAperiodicParams
      [] OTHER -> FooofPeriodicParams

StepOutcomes(step) ==
    CASE step = "apply_source_localization" -> SourceLocOutcomes
      [] step = "apply_source_psd" -> SourcePSDOutcomes
      [] step = "apply_source_connectivity" -> ConnectivityOutcomes
      [] step = "apply_fooof_aperiodic" -> FooofAperiodicOutcomes
      [] OTHER -> FooofPeriodicOutcomes

\* self.<step>() with the settings of the task configuration
run_step(step, s, enabled, cfg, outcome, plots, fit) ==
    LET kw == KwAll(StepParams(step)) IN
    CASE step = "apply_source_localization" ->
            apply_source_localization(s, enabled, cfg, NoneV, kw, outcome)
      [] step = "apply_source_psd" ->
            apply_source_psd(s, enabled, cfg, NoneV, kw, plots, outcome)
      [] step = "apply_source_connectivity" ->
            apply_source_connectivity(s, enabled, cfg, NoneV, kw, outcome)
      [] step = "apply_fooof_aperiodic" ->
            apply_fooof_aperiodic(s, enabled, cfg, NoneV, kw, outcome, "fixed", fit)
      [] OTHER ->
            apply_fooof_periodic(s, enabled, cfg, NoneV, kw, outcome)

\* the next statement of run(): an exception ends the run
RunStep ==
    /\ Running
    /\ call.result # "raise"
    /\ LET step == Pipelines[alg.pipeline][alg.pos] IN
       \E enabled \in BOOLEAN, cfg \in {CfgEmpty, CfgNested(StepParams(step))},
          outcome \in StepOutcomes(step), plots \in BOOLEAN, fit \in StepFits :
          LET r == run_step(step, Cur, enabled, cfg, outcome, plots, fit) IN
          /\ host' = r.host
          /\ metadata' = r.metadata
          /\ files' = r.files
          /\ call' = r.call
          /\ alg' = [alg EXCEPT !.pos = @ + 1, !.prev = call,
                                !.localized =
                                    @ \/ (/\ step = "apply_source_localization"
                                          /\ enabled
                                          /\ r.call.result = "return"
                                          /\ IsBaseRaw(r.call.inst))]
    /\ pre' = State(host, metadata, files)
    /\ ncalls' = ncalls + 1

SpecRun == InitRun /\ [][RunStep]_vars

(***************************************************************************)
(* C18: in a run that calls apply_source_localization() on Raw data and    *)
(* then apply_source_connectivity() or apply_fooof_aperiodic() with no     *)
(* explicit input, the localization leaves a self.stc that is not None,    *)
(* and the following step works on it: it does not raise the               *)
(* AttributeError of a missing prerequisite.                               *)
(***************************************************************************)
C18_LocalizationFeedsNextStep ==
    (alg.fn = "run" /\ alg.localized) =>
        /\ call.step = "apply_source_localization" => ~Missing(host, "stc")
        /\ (call.step \in {"apply_source_connectivity", "apply_fooof_aperiodic"}
               /\ call.enabled) =>
              /\ ~(call.result = "raise" /\ call.exc = "AttributeError")
              /\ call.inst = pre.host.stc

\* the host attributes in which a step leaves its primary result
PrimaryResult ==
    [k \in AnalysisSteps \cup {"apply_autoreject"} |->
        CASE k = "apply_autoreject" -> <<"epochs">>
          [] k = "apply_source_localization" -> <<"source_eeg">>
          [] k = "apply_source_psd" -> <<"source_psd_df">>
          [] k = "apply_source_connectivity" -> <<"source_connectivity_df">>
          [] k = "apply_fooof_aperiodic" -> <<"fooof_aperiodic_df", "stc_psd">>
          [] OTHER -> <<"fooof_periodic_df">>]

\* an enabled analysis or rejection step returned its result normally
ReturnedResult ==
    /\ call.step \in DOMAIN PrimaryResult
    /\ call.enabled
    /\ call.result = "return"

(***************************************************************************)
(* C19: after an enabled step has returned its result normally, the        *)
(* result is stored on the host where later steps look for it              *)
(* (apply_autoreject: self.epochs, the cleaned epochs; apply_source_psd:   *)
(* self.source_psd_df; apply_fooof_aperiodic: self.fooof_aperiodic_df and  *)
(* self.stc_psd; apply_fooof_periodic: self.fooof_periodic_df;             *)
(* apply_source_connectivity: self.source_connectivity_df;                 *)
(* apply_source_localization: self.source_eeg), with or without a run_id.  *)
(***************************************************************************)
C19_ResultStoredOnHost ==
    ReturnedResult =>
        LET attrs == PrimaryResult[call.step] IN
        /\ host[attrs[1]] = call.ret[1]
        /\ \A i \in 1..Len(attrs) : ~Missing(host, attrs[i])
        /\ call.step = "apply_fooof_aperiodic" => IsSourceEstimate(host.stc_psd)

(***************************************************************************)
(* calculate_fooof_periodic: the vertices are cut into batches, each batch *)
(* is fitted as a group and gives one row per vertex and band; joblib      *)
(* runs the batches in any order and hands the results back in the order   *)
(* of the batches.                                                         *)
(***************************************************************************)
MaxPeriodicVertices == 3
MaxPeriodicBands == 2
\* batch_size, 2000 in the source, scaled down to the vertex counts above
PeriodicBatchSize == 2

default_freq_bands == <<"delta", "theta", "alpha", "beta", "gamma">>

NaN == "nan"

\* range(i, min(i + batch_size, n_vertices)) for i in range(0, n_vertices,
\* batch_size): the vertices (numbered from 0) of batch b (numbered from 1)
BatchCount(n) == (n + PeriodicBatchSize - 1) \div PeriodicBatchSize
BatchFirst(b) == (b - 1) * PeriodicBatchSize
BatchLast(n, b) == Min(b * PeriodicBatchSize, n) - 1

\* variant: a band without a peak gives no row
band_row_peaks_only(results, vertex_idx, band_name, found) ==
    IF found
    THEN Append(results, [vertex |-> vertex_idx, band |-> band_name,
                          center_frequency |-> "cf", power |-> "pw",
                          bandwidth |-> "bw"])
    ELSE results

\* results.append({...}): the peak of the band, or NaN in its place when
\* get_band_peak_fm found none
band_row(results, vertex_idx, band_name, found) ==
    Append(results, [vertex |-> vertex_idx, band |-> band_name,
                     center_frequency |-> IF found THEN "cf" ELSE NaN,
                     power |-> IF found THEN "pw" ELSE NaN,
                     bandwidth |-> IF found THEN "bw" ELSE NaN])

RECURSIVE flat_results(_, _)
\* [item for sublist in all_results for item in sublist], from batch b on
flat_results(all_results, b) ==
    IF b > Len(all_results) THEN <<>>
    ELSE all_results[b] \o flat_results(all_results, b + 1)

InitPeriodic ==
    /\ HostIdle
    /\ \E n \in 1..MaxPeriodicVertices, nb \in 1..MaxPeriodicBands :
          alg = [fn |-> "calculate_fooof_periodic", pc |-> "batches",
                 n_vertices |-> n,
                 freq_bands |-> SubSeq(default_freq_bands, 1,
                                       Min(nb, Len(default_freq_bands))),
                 all_results |-> [b \in 1..BatchCount(n) |-> <<>>],
                 finished |-> {}, order |-> <<>>,
                 batch |-> 0, vertex_idx |-> 0, band |-> 1, results |-> <<>>,
                 periodic_df |-> <<>>, exc |-> NoExc]

InPeriodic(pc) == alg.fn = "calculate_fooof_periodic" /\ alg.pc = pc

\* a worker takes up a batch and fits the group: FOOOFGroup.fit
FitBatch ==
    /\ InPeriodic("batches")
    /\ \E b \in (1..BatchCount(alg.n_vertices)) \ alg.finished, ok \in BOOLEAN :
          alg' = IF ok THEN [alg EXCEPT !.pc = "rows", !.batch = b,
                                        !.vertex_idx = BatchFirst(b),
                                        !.band = 1, !.results = <<>>]
                 ELSE [alg EXCEPT !.pc = "raised", !.exc = LibError]
    /\ HostUntouched

\* one pass of the inner loop: the row of a vertex and a band
BandRow ==
    /\ InPeriodic("rows")
    /\ alg.vertex_idx <= BatchLast(alg.n_vertices, alg.batch)
    /\ \E found \in BOOLEAN :
          LET last == alg.band = Len(alg.freq_bands) IN
          alg' = [alg EXCEPT
                    !.results = band_row(@, alg.vertex_idx,
                                         alg.freq_bands[alg.band], found),
                    !.band = IF last THEN 1 ELSE @ + 1,
                    !.vertex_idx = IF last THEN @ + 1 ELSE @]
    /\ HostUntouched

\* return results: the batch is done
ReturnBatch ==
    /\ InPeriodic("rows")
    /\ alg.vertex_idx > BatchLast(alg.n_vertices, alg.batch)
    /\ alg' = [alg EXCEPT !.pc = "batches",
                          !.all_results[alg.batch] = alg.results,
                          !.finished = @ \cup {alg.batch},
                          !.order = Append(@, alg.batch),
                          !.batch = 0, !.results = <<>>]
    /\ HostUntouched

\* all batches are back: the table is put together and saved
SavePeriodic ==
    /\ InPeriodic("batches")
    /\ alg.finished = 1..BatchCount(alg.n_vertices)
    /\ alg' = [alg EXCEPT !.pc = "done",
                          !.periodic_df = flat_results(alg.all_results, 1)]
    /\ HostUntouched

NextPeriodic ==
    \/ FitBatch
    \/ BandRow
    \/ ReturnBatch
    \/ SavePeriodic

SpecPeriodic == InitPeriodic /\ [][NextPeriodic]_vars

\* row k of the table is the row of vertex (k - 1) div bands and of band
\* (k - 1) mod bands, both counted from 0
RowOfPair(k) ==
    LET nb == Len(alg.freq_bands)
        row == alg.periodic_df[k]
    IN /\ row.vertex = (k - 1) \div nb
       /\ row.band = alg.freq_bands[((k - 1) % nb) + 1]

PeakValues(row) == {row.center_frequency, row.power, row.bandwidth}

(***************************************************************************)
(* C20: calculate_fooof_periodic returns exactly one row for every         *)
(* (vertex, band) pair of its input, in vertex order; a band in which no   *)
(* peak is found gives a row with NaN as center_frequency, power and       *)
(* bandwidth, and never an error.                                          *)
(***************************************************************************)
C20_OneRowPerVertexAndBand ==
    /\ InPeriodic("done") =>
          /\ Len(alg.periodic_df) = alg.n_vertices * Len(alg.freq_bands)
          /\ \A k \in 1..Len(alg.periodic_df) :
                /\ RowOfPair(k)
                /\ PeakValues(alg.periodic_df[k]) = {NaN}
                      \/ NaN \notin PeakValues(alg.periodic_df[k])
    /\ InPeriodic("raised") => alg.batch = 0 /\ alg.results = <<>>

\* three vertices in two batches, the second batch finished first, and a
\* vertex of the first batch without a peak in its second band
C20_Witness ==
    /\ InPeriodic("done")
    /\ alg.n_vertices = 3
    /\ Len(alg.freq_bands) = 2
    /\ alg.order = <<2, 1>>
    /\ alg.periodic_df[2].center_frequency = NaN
    /\ alg.periodic_df[1].center_frequency # NaN

(***************************************************************************)
(* C21: when apply_zapline_dss raises anything but a BlockDependencyError, *)
(* apply_zapline logs an error and returns the object it was given;        *)
(* nothing is updated, saved or written to the metadata.  Of the           *)
(* exceptions of apply_zapline_dss only a BlockDependencyError reaches the *)
(* caller.                                                                 *)
(***************************************************************************)
C21_DssFailureReturnsInput ==
    /\ (call.step = "apply_zapline" /\ call.fail = "dss_fail") =>
          /\ call.result = "return"
          /\ call.ret = <<call.inst>>
          /\ call.inst = (IF call.arg # NoneV THEN call.arg ELSE pre.host.raw)
          /\ "error" \in call.log
          /\ "success" \notin call.log
          /\ Unchanged
    /\ (call.step = "apply_zapline" /\ call.fail = "dss_dep") =>
          /\ call.result = "raise"
          /\ call.exc = "BlockDependencyError"
          /\ Unchanged

\* the denoising of an explicitly given Raw failed on a host that holds
\* another Raw: the given one comes back
C21_Witness ==
    /\ call.step = "apply_zapline"
    /\ call.fail = "dss_fail"
    /\ call.arg = "RawArg"
    /\ pre.host.raw = "Raw"
    /\ call.ret = <<"RawArg">>

\* the localization step, enabled or not, has just returned
LocalizationReturned(c) ==
    c.step = "apply_source_localization" /\ c.result = "return"

\* what the claim says of the host after the localization step and of the
\* apply_source_psd() call that follows it
RoiDataOnly(enabledOnly) ==
    alg.fn = "run" =>
    /\ (LocalizationReturned(call) /\ (enabledOnly => call.enabled)) =>
          /\ host.source_eeg = call.ret[1]
          /\ host.stc = NoneV
          /\ host.stc_list = NoneV
    /\ (/\ call.step = "apply_source_psd" /\ call.enabled
        /\ LocalizationReturned(alg.prev) /\ (enabledOnly => alg.prev.enabled)) =>
          /\ call.inst = pre.host.source_eeg
          /\ IsBaseRaw(call.inst) \/ IsBaseEpochs(call.inst)
          /\ "roi_mode" \in call.flags
          /\ "vertex_mode" \notin call.flags

MaxFooofCalls == 3

InitFooofRun ==
    /\ host \in {EmptyHost, [EmptyHost EXCEPT !.stc = "STC"]}
    /\ metadata = [k \in MetaKeys |-> <<>>]
    /\ files = {}
    /\ call = NoCall
    /\ pre = State(host, metadata, files)
    /\ ncalls = 0
    /\ alg = [fn |-> "fooof_run", aperiodic_returned |-> FALSE]

InFooofRun == alg.fn = "fooof_run" /\ ncalls < MaxFooofCalls

\* the fits in which every vertex ends alike
UniformFits == {f \in StepFits : \A i \in DOMAIN f.params : f.params[i] = f.params[1]}

\* the call r is made; an enabled aperiodic call that returns is remembered
FooofDo(r) ==
    /\ host' = r.host
    /\ metadata' = r.metadata
    /\ files' = r.files
    /\ call' = r.call
    /\ pre' = State(host, metadata, files)
    /\ ncalls' = ncalls + 1
    /\ alg' = [alg EXCEPT !.aperiodic_returned =
                  @ \/ (/\ r.call.step = "apply_fooof_aperiodic"
                        /\ r.call.enabled
                        /\ r.call.result = "return")]

RunFooofAperiodic ==
    /\ InFooofRun
    /\ \E enabled \in BOOLEAN, arg \in {NoneV, "STCArg"},
          outcome \in FooofAperiodicOutcomes :
          LET kw == KwAll(FooofAperiodicParams)
              cfg == CfgNested(FooofAperiodicParams)
              fit0 == [path |-> "both_fail", params |-> <<"nan">>]
          IN IF outcome \in {"psd", "fit", "empty"}
             THEN FooofDo(apply_fooof_aperiodic(Cur, enabled, cfg, arg, kw,
                                                outcome, "fixed", fit0))
             ELSE \E mode \in AperiodicModes, fit \in UniformFits :
                  FooofDo(apply_fooof_aperiodic(Cur, enabled, cfg, arg, kw,
                                                outcome, mode, fit))

RunFooofPeriodic ==
    /\ InFooofRun
    /\ \E enabled \in BOOLEAN, arg \in {NoneV, "StcPsdArg"},
          outcome \in FooofPeriodicOutcomes :
          FooofDo(apply_fooof_periodic(Cur, enabled, CfgNested(FooofPeriodicParams),
                                       arg, KwAll(FooofPeriodicParams), outcome))

NextFooofRun ==
    \/ RunFooofAperiodic
    \/ RunFooofPeriodic

SpecFooofRun == InitFooofRun /\ [][NextFooofRun]_vars

\* an enabled periodic call without an explicit stc_psd
PeriodicFromHost ==
    /\ alg.fn = "fooof_run"
    /\ call.step = "apply_fooof_periodic"
    /\ call.enabled
    /\ call.arg = NoneV

NoPrerequisite == call.result = "raise" /\ call.exc = "AttributeError"

(***************************************************************************)
(* C23: apply_fooof_periodic() without an explicit stc_psd finds its input *)
(* exactly when an earlier enabled apply_fooof_aperiodic call of the run   *)
(* has returned normally, the only step that sets self.stc_psd; after a    *)
(* disabled or failed aperiodic step, or none, it raises AttributeError    *)
(* and writes nothing.                                                     *)
(***************************************************************************)
C23_PeriodicNeedsAperiodic ==
    PeriodicFromHost =>
        /\ alg.aperiodic_returned <=> ~NoPrerequisite
        /\ alg.aperiodic_returned => call.inst = "StcPsd"
        /\ ~alg.aperiodic_returned => Unchanged /\ call.algs = {}

\* the periodic step raised after a failed aperiodic step, and ran after a
\* later aperiodic call that returned
C23_Witness ==
    /\ PeriodicFromHost
    /\ ncalls = 3
    /\ alg.aperiodic_returned
    /\ call.result = "return"
    /\ call.inst = "StcPsd"
    /\ host.fooof_periodic_df = "PeriodicDF"

\* the keys of the record that _update_metadata was given for a step
HandedKeys(key) ==
    IF metadata[key] = <<>> THEN {} ELSE DOMAIN metadata[key][1]

(***************************************************************************)
(* C24: when apply_autoreject has generated its PDF report, the metadata   *)
(* record handed to the host under step_apply_autoreject contains          *)
(* report_path: the path is in the record before, or when,                 *)
(* _update_metadata is called with it.                                     *)
(***************************************************************************)
C24_ReportPathInMetadata ==
    (call.step = "apply_autoreject" /\ call.fail = "report_ok"
        /\ call.result = "return") =>
        /\ "report_path" \in HandedKeys("step_apply_autoreject")
        /\ "report_path" \notin call.late

(***************************************************************************)
(* scripts/validate_registry.py: registry.json against the tasks directory *)
(***************************************************************************)
\* the longest tasks list of registry.json that is drawn
MaxRegistryEntries == 2

\* data.get("version"): absent (None) or a number
Versions ==
    {[none |-> TRUE, v |-> 0], [none |-> FALSE, v |-> 1], [none |-> FALSE, v |-> 2]}

\* entry.get("name"): None, the empty string or a task name
RegistryNames == {NoneV, "", "TaskA", "TaskB"}

\* entry.get("path"): None, the empty string or a path relative to ROOT
RegistryPaths ==
    {NoneV, "", "tasks/a.py", "tasks/b.py", "tasks/gone.py", "README.md"}

\* an element of the tasks list: an object, or any other JSON value
RegistryEntries ==
    {[object |-> FALSE, name |-> NoneV, path |-> NoneV]}
    \cup [object : {TRUE}, name : RegistryNames, path : RegistryPaths]

TaskLists ==
    UNION {[1..n -> RegistryEntries] : n \in 0..MaxRegistryEntries}

\* what registry_path.read_text() and json.loads() can meet
RegistryFiles ==
    {[kind |-> k, version |-> [none |-> TRUE, v |-> 0], is_list |-> FALSE,
      tasks |-> <<>>] : k \in {"missing", "invalid_json", "not_object"}}
    \cup [kind : {"object"}, version : Versions, is_list : {FALSE},
          tasks : {<<>>}]
    \cup [kind : {"object"}, version : Versions, is_list : {TRUE},
          tasks : TaskLists]

\* the directory tree under ROOT: regular files and directories
FileSystems ==
    { [files |-> {"tasks/a.py", "tasks/b.py", "tasks/__init__.py", "README.md"},
       dirs |-> {"tasks"}],
      [files |-> {"tasks/a.py", "tasks/__init__.py", "README.md"},
       dirs |-> {"tasks"}],
      [files |-> {"tasks/a.py", "README.md"}, dirs |-> {"tasks", "tasks/pkg.py"}],
      [files |-> {"README.md"}, dirs |-> {}] }

\* the paths that (ROOT / "tasks").rglob("*.py") can match
UnderTasksPy ==
    {"tasks/a.py", "tasks/b.py", "tasks/gone.py", "tasks/__init__.py",
     "tasks/pkg.py"}

\* p.name of a path
PathName(p) == IF p = "tasks/__init__.py" THEN "__init__.py" ELSE p

\* candidate.is_file()
is_file(fs, path) == path \in fs.files

\* rglob yields every directory entry whose name matches, files and
\* directories alike
actual_files(fs) ==
    {p \in (fs.files \cup fs.dirs) \cap UnderTasksPy : PathName(p) # "__init__.py"}

Error(kind, entry, what) == [kind |-> kind, entry |-> entry, what |-> what]

\* one pass of the loop over tasks, with the names and paths seen so far
check_entry(st, i, entry, fs) ==
    LET name == entry.name
        path == entry.path
    IN IF ~entry.object
       THEN [st EXCEPT !.errors = Append(@, Error("not_object", i, ""))]
       ELSE IF name = NoneV \/ name = ""
       THEN [st EXCEPT !.errors = Append(@, Error("invalid_name", i, ""))]
       ELSE
         LET s1 == [st EXCEPT
                      !.errors = IF name \in st.names_seen
                                 THEN Append(@, Error("duplicate_name", i, name))
                                 ELSE @,
                      !.names_seen = @ \cup {name}]
         IN IF path = NoneV \/ path = ""
            THEN [s1 EXCEPT !.errors = Append(@, Error("invalid_path", i, ""))]
            ELSE
              LET s2 == [s1 EXCEPT
                           !.errors = IF path \in s1.paths_seen
                                      THEN Append(@, Error("duplicate_path", i, path))
                                      ELSE @,
                           !.paths_seen = @ \cup {path}]
              IN IF is_file(fs, path) THEN s2
                 ELSE [s2 EXCEPT
                         !.errors = Append(@, Error("path_does_not_exist", i, path))]

RECURSIVE check_entries(_, _, _, _)
check_entries(st, tasks, i, fs) ==
    IF i > Len(tasks) THEN st
    ELSE check_entries(check_entry(st, i, tasks[i], fs), tasks, i + 1, fs)

\* the script from data.get("version") to the end; data is a JSON object
check_registry(data, fs) ==
    LET e1 == IF data.version.none \/ data.version.v # 1
              THEN <<Error("version", 0, "")>> ELSE <<>>
        e2 == IF data.is_list THEN e1
              ELSE Append(e1, Error("tasks_not_list", 0, ""))
        tasks == IF data.is_list THEN data.tasks ELSE <<>>
        st == check_entries([errors |-> e2, names_seen |-> {}, paths_seen |-> {}],
                            tasks, 1, fs)
        missing_entries == actual_files(fs) \ st.paths_seen
        unknown_entries == st.paths_seen \ actual_files(fs)
        e3 == st.errors
              \o [k \in 1..(IF missing_entries # {} THEN 1 ELSE 0) |->
                     Error("missing_from_registry", 0, "")]
              \o [k \in 1..(IF unknown_entries # {} THEN 1 ELSE 0) |->
                     Error("unknown_entries", 0, "")]
    IN [errors |-> e3, missing_entries |-> missing_entries,
        unknown_entries |-> unknown_entries,
        status |-> IF e3 # <<>> THEN 1 ELSE 0]

InitRegistry ==
    /\ HostIdle
    /\ \E reg \in RegistryFiles, fs \in FileSystems :
          alg = [fn |-> "validate_registry", pc |-> "start", registry |-> reg,
                 fs |-> fs, errors |-> <<>>, missing_entries |-> {},
                 unknown_entries |-> {}, stderr |-> "", status |-> 0]

InRegistry(pc) == alg.fn = "validate_registry" /\ alg.pc = pc

\* try: data = json.loads(registry_path.read_text(...)), with its two
\* except clauses
LoadRegistry ==
    /\ InRegistry("start")
    /\ alg' = CASE alg.registry.kind = "missing" ->
                     [alg EXCEPT !.pc = "exit", !.status = 1,
                                 !.stderr = "registry.json is missing"]
                [] alg.registry.kind = "invalid_json" ->
                     [alg EXCEPT !.pc = "exit", !.status = 1,
                                 !.stderr = "registry.json is not valid JSON"]
                [] OTHER -> [alg EXCEPT !.pc = "loaded"]
    /\ HostUntouched

\* the rest of the script; a top-level value without .get ends the
\* interpreter with a traceback and status 1
CheckRegistry ==
    /\ InRegistry("loaded")
    /\ alg' = IF alg.registry.kind = "not_object"
              THEN [alg EXCEPT !.pc = "exit", !.status = 1,
                               !.stderr = "AttributeError"]
              ELSE LET r == check_registry(alg.registry, alg.fs)
                   IN [alg EXCEPT !.pc = "exit", !.errors = r.errors,
                                  !.missing_entries = r.missing_entries,
                                  !.unknown_entries = r.unknown_entries,
                                  !.status = r.status,
                                  !.stderr = IF r.status = 1 THEN "errors"
                                             ELSE ""]
    /\ HostUntouched

NextRegistry == LoadRegistry \/ CheckRegistry

SpecRegistry == InitRegistry /\ [][NextRegistry]_vars

\* the entries of the registry that are objects with a string path
StringPaths(reg) ==
    {reg.tasks[i].path : i \in {j \in 1..Len(reg.tasks) :
        reg.tasks[j].object /\ reg.tasks[j].path # NoneV}}

\* the *.py regular files under tasks/ other than __init__.py
TaskPyFiles(fs) ==
    {p \in fs.files \cap UnderTasksPy : PathName(p) # "__init__.py"}

\* the conditions a registry can break, by the name of the error kind
\* that reports each
Violations(reg, fs) ==
    LET t == reg.tasks
        I == 1..Len(t)
        Obj == {i \in I : t[i].object}
        GoodName == {i \in Obj : t[i].name # NoneV /\ t[i].name # ""}
        GoodPath == {i \in Obj : t[i].path # NoneV /\ t[i].path # ""}
    IN  (IF reg.kind # "object" THEN {"unparsed"} ELSE {})
        \cup (IF reg.kind = "object" /\ (reg.version.none \/ reg.version.v # 1)
              THEN {"version"} ELSE {})
        \cup (IF reg.kind = "object" /\ ~reg.is_list
              THEN {"tasks_not_list"} ELSE {})
        \cup (IF Obj # I THEN {"not_object"} ELSE {})
        \cup (IF GoodName # Obj THEN {"invalid_name"} ELSE {})
        \cup (IF GoodPath # Obj THEN {"invalid_path"} ELSE {})
        \cup (IF \E i, j \in GoodName : i # j /\ t[i].name = t[j].name
              THEN {"duplicate_name"} ELSE {})
        \cup (IF \E i, j \in GoodPath : i # j /\ t[i].path = t[j].path
              THEN {"duplicate_path"} ELSE {})
        \cup (IF \E i \in GoodPath : ~is_file(fs, t[i].path)
              THEN {"path_does_not_exist"} ELSE {})
        \cup (IF reg.kind = "object" /\ StringPaths(reg) # TaskPyFiles(fs)
              THEN {"paths_differ"} ELSE {})

\* the conditions that the script's output names
Listed(a) ==
    LET kinds == {a.errors[i].kind : i \in 1..Len(a.errors)}
    IN  (kinds \ {"missing_from_registry", "unknown_entries"})
        \cup (IF kinds \cap {"missing_from_registry", "unknown_entries"} # {}
              THEN {"paths_differ"} ELSE {})
        \cup (IF a.stderr \in {"registry.json is missing",
                               "registry.json is not valid JSON"}
              THEN {"unparsed"} ELSE {})

(***************************************************************************)
(* C25: validate_registry.py exits with status 0 exactly when              *)
(* registry.json parses, has version 1, tasks is a list of objects with    *)
(* non-empty string name and path, no name or path is repeated, every path *)
(* is an existing file and the registry paths are the *.py files under     *)
(* tasks/ other than __init__.py; otherwise it exits with status 1 and     *)
(* lists every violation.                                                  *)
(***************************************************************************)
C25_ExitStatusIffValid ==
    InRegistry("exit") =>
        /\ alg.status = 0 <=> Violations(alg.registry, alg.fs) = {}
        /\ alg.status # 0 =>
              /\ alg.status = 1
              /\ Violations(alg.registry, alg.fs) \subseteq Listed(alg)

(***************************************************************************)
(* The vertex batches of calculate_vertex_psd_for_fooof,                   *)
(* calculate_fooof_aperiodic, calculate_fooof_periodic and                 *)
(* calculate_source_psd_list.  The batch sizes of the source (4000, 2000,  *)
(* 2000 and 1000..5000) are scaled down; vertex indices start at 0.        *)
(***************************************************************************)
MaxPartitionVertices == 5

\* batch_size of calculate_vertex_psd_for_fooof
VertexPsdBatchSize == 3

\* batch_size of calculate_fooof_aperiodic
AperiodicBatchSize == 2

\* the limits of batch_size in calculate_source_psd_list
MinPsdListBatch == 1
MaxPsdListBatch == 3

PartitionFns ==
    {"calculate_vertex_psd_for_fooof", "calculate_fooof_aperiodic",
     "calculate_fooof_periodic", "calculate_source_psd_list"}

\* the functions that hand their batches to joblib.Parallel
ParallelFns == PartitionFns \ {"calculate_vertex_psd_for_fooof"}

\* the functions that write batch arrays into slices of one array
SliceFns == {"calculate_vertex_psd_for_fooof", "calculate_source_psd_list"}

\* n_jobs: all cores, none, one, two
PartitionJobs == {-1, 0, 1, 2}

Max(a, b) == IF a > b THEN a ELSE b

\* Python's a // b
FloorDiv(a, b) == IF b > 0 THEN a \div b ELSE (-a) \div (-b)

\* batch_size, by function
batch_size(fn, n_vertices, n_jobs) ==
    CASE fn = "calculate_vertex_psd_for_fooof" -> VertexPsdBatchSize
      [] fn = "calculate_fooof_aperiodic" -> AperiodicBatchSize
      [] fn = "calculate_fooof_periodic" -> PeriodicBatchSize
      [] fn = "calculate_source_psd_list" ->
            Min(MaxPsdListBatch,
                Max(MinPsdListBatch, FloorDiv(n_vertices, n_jobs * 2)))

\* a batch never reaches past the last vertex
batch_stop_unclipped(i, size, n_vertices) == i + size

\* min(i + batch_size, n_vertices)
batch_stop(i, size, n_vertices) == Min(i + size, n_vertices)

\* for i in range(0, n_vertices, batch_size):
\*     vertex_batches.append(range(i, min(i + batch_size, n_vertices)))
vertex_batches(n_vertices, size) ==
    [k \in 1..Ceil(n_vertices, size) |->
        [start |-> (k - 1) * size,
         stop |-> batch_stop((k - 1) * size, size, n_vertices)]]

\* n_batches = int(np.ceil(n_vertices / batch_size)) and
\* range(i * batch_size, min((i + 1) * batch_size, n_vertices))
batch_indices(n_vertices, size) ==
    LET n_batches == Ceil(n_vertices, size)
    IN [k \in 1..n_batches |->
           [start |-> (k - 1) * size,
            stop |-> batch_stop((k - 1) * size, size, n_vertices)]]

\* a row of np.zeros
ZeroRow == [from |-> -1, zero |-> TRUE, band |-> 0]

\* the output computed from the data of one vertex
VertexRow(vertex_idx, band) == [from |-> vertex_idx, zero |-> FALSE, band |-> band]

\* the rows every vertex gets in the flattened table
RowsPerVertex(fn) ==
    IF fn = "calculate_fooof_periodic" THEN Len(default_freq_bands) ELSE 1

\* process_vertex_batch: batch_psd[i] for the i-th index of the batch; a
\* vertex that is skipped keeps its row of zeros
process_vertex_batch(batch, skip) ==
    [i \in 1..(batch.stop - batch.start) |->
        IF batch.start + i - 1 \in skip THEN ZeroRow
        ELSE VertexRow(batch.start + i - 1, 0)]

\* process_batch: one result per vertex of the batch (and per band, in
\* calculate_fooof_periodic), in the order of the batch
process_batch(fn, batch) ==
    [i \in 1..((batch.stop - batch.start) * RowsPerVertex(fn)) |->
        VertexRow(batch.start + ((i - 1) \div RowsPerVertex(fn)),
                  IF fn = "calculate_fooof_periodic"
                  THEN ((i - 1) % RowsPerVertex(fn)) + 1 ELSE 0)]

\* psd[start_idx:end_idx] = batch_psd
store_slice(psd, start_idx, end_idx, batch_psd) ==
    [v \in DOMAIN psd |->
        IF start_idx <= v /\ v < end_idx /\ v - start_idx + 1 \in DOMAIN batch_psd
        THEN batch_psd[v - start_idx + 1] ELSE psd[v]]

RECURSIVE combine_results(_, _, _, _, _)
\* for batch_idx, (batch_psd, ...) in enumerate(results), from batch k on
combine_results(psd, results, k, size, n_vertices) ==
    IF k > Len(results) THEN psd
    ELSE combine_results(
            store_slice(psd, (k - 1) * size,
                        batch_stop((k - 1) * size, size, n_vertices), results[k]),
            results, k + 1, size, n_vertices)

InitPartition ==
    /\ HostIdle
    /\ \E fn \in PartitionFns, n \in 0..MaxPartitionVertices,
          j \in PartitionJobs :
          alg = [fn |-> fn, pc |-> "start", n_vertices |-> n, n_jobs |-> j,
                 size |-> 0, batches |-> <<>>, results |-> <<>>,
                 finished |-> {}, order |-> <<>>, skipped |-> {},
                 psd |-> [v \in 0..(n - 1) |-> ZeroRow], flat |-> <<>>,
                 exc |-> NoExc]

InPartition(pc) == alg.fn \in PartitionFns /\ alg.pc = pc

\* batch_size and the list of batches; n_jobs * 2 = 0 is a division by zero
\* in calculate_source_psd_list
MakeBatches ==
    /\ InPartition("start")
    /\ alg' =
         IF alg.fn = "calculate_source_psd_list" /\ alg.n_jobs = 0
         THEN [alg EXCEPT !.pc = "raised", !.exc = "ZeroDivisionError"]
         ELSE LET size == batch_size(alg.fn, alg.n_vertices, alg.n_jobs)
                  batches == IF alg.fn \in SliceFns
                             THEN batch_indices(alg.n_vertices, size)
                             ELSE vertex_batches(alg.n_vertices, size)
              IN [alg EXCEPT !.pc = "batches", !.size = size,
                             !.batches = batches,
                             !.results = [k \in DOMAIN batches |-> <<>>]]
    /\ HostUntouched

\* Parallel(n_jobs=0) is refused by joblib
ParallelRefuses ==
    /\ InPartition("batches")
    /\ alg.fn \in ParallelFns /\ alg.n_jobs = 0
    /\ alg' = [alg EXCEPT !.pc = "raised", !.exc = "ValueError"]
    /\ HostUntouched

\* one pass of the loop of calculate_vertex_psd_for_fooof: the next batch
\* is computed and stored at once
ProcessVertexBatch ==
    /\ InPartition("batches")
    /\ alg.fn = "calculate_vertex_psd_for_fooof"
    /\ Cardinality(alg.finished) < Len(alg.batches)
    /\ LET k == Cardinality(alg.finished) + 1
           start_idx == (k - 1) * alg.size
           end_idx == batch_stop(k * alg.size - alg.size, alg.size, alg.n_vertices)
           batch_psd == process_vertex_batch(alg.batches[k], {})
       IN alg' = [alg EXCEPT !.finished = @ \cup {k}, !.order = Append(@, k),
                             !.results[k] = batch_psd,
                             !.psd = store_slice(@, start_idx, end_idx, batch_psd)]
    /\ HostUntouched

\* a worker of Parallel finishes a batch, whichever; its result takes the
\* place of its batch in the returned list
WorkerFinishes ==
    /\ InPartition("batches")
    /\ alg.fn \in ParallelFns /\ alg.n_jobs # 0
    /\ \E k \in DOMAIN alg.batches \ alg.finished :
       \E skip \in IF alg.fn = "calculate_source_psd_list"
                   THEN SUBSET {alg.batches[k].start} ELSE {{}} :
          alg' = [alg EXCEPT
                    !.finished = @ \cup {k}, !.order = Append(@, k),
                    !.skipped = @ \cup skip,
                    !.results[k] =
                        IF alg.fn = "calculate_source_psd_list"
                        THEN process_vertex_batch(alg.batches[k], skip)
                        ELSE process_batch(alg.fn, alg.batches[k])]
    /\ HostUntouched

\* calculate_source_psd_list: "Combine results"; the sequential loop of
\* calculate_vertex_psd_for_fooof has stored its slices already
CombineResults ==
    /\ InPartition("batches")
    /\ alg.fn \in SliceFns
    /\ alg.finished = DOMAIN alg.batches
    /\ alg' = [alg EXCEPT
                 !.pc = "done",
                 !.psd = IF alg.fn = "calculate_source_psd_list"
                         THEN combine_results(@, alg.results, 1, alg.size,
                                              alg.n_vertices)
                         ELSE @]
    /\ HostUntouched

\* calculate_fooof_aperiodic, calculate_fooof_periodic: "Flatten results"
FlattenResults ==
    /\ InPartition("batches")
    /\ alg.fn \in ParallelFns \ SliceFns /\ alg.n_jobs # 0
    /\ alg.finished = DOMAIN alg.batches
    /\ alg' = [alg EXCEPT !.pc = "done",
                          !.flat = flat_results(alg.results, 1)]
    /\ HostUntouched

NextPartition ==
    \/ MakeBatches
    \/ ParallelRefuses
    \/ ProcessVertexBatch
    \/ WorkerFinishes
    \/ CombineResults
    \/ FlattenResults

SpecPartition == InitPartition /\ [][NextPartition]_vars

\* the batches that hold vertex v
BatchesOf(v) ==
    {k \in DOMAIN alg.batches :
        alg.batches[k].start <= v /\ v < alg.batches[k].stop}

\* every row of the assembled result comes from the vertex of its position
OwnPositions ==
    IF alg.fn \in SliceFns
    THEN /\ DOMAIN alg.psd = 0..(alg.n_vertices - 1)
         /\ \A v \in DOMAIN alg.psd :
               alg.psd[v] = IF v \in alg.skipped THEN ZeroRow ELSE VertexRow(v, 0)
    ELSE /\ Len(alg.flat) = alg.n_vertices * RowsPerVertex(alg.fn)
         /\ \A p \in DOMAIN alg.flat :
               /\ ~alg.flat[p].zero
               /\ alg.flat[p].from = (p - 1) \div RowsPerVertex(alg.fn)

MaxTimes == 5

\* the largest epoch_length * sfreq
MaxSamplesPerEpoch == 2

\* the largest n_epochs asked for
MaxRequestedEpochs == 2

\* the arrays of k distinct values below n that
\* np.random.choice(n, size=k, replace=False) can return; the generator is
\* not seeded, so any of them
random_choice(n, k) ==
    {s \in [1..k -> 0..(n - 1)] : \A i, j \in 1..k : i # j => s[i] # s[j]}

\* one run of the function, before its epochs are cut
NewRun ==
    [pc |-> "clamp", max_epochs |-> 0, n_epochs |-> 0, epoch_starts |-> <<>>,
     epoched_data |-> <<>>, exc |-> NoExc]

InitEpochs ==
    /\ HostIdle
    /\ \E n_times \in 0..MaxTimes, spe \in 1..MaxSamplesPerEpoch,
          n_epochs \in 1..MaxRequestedEpochs :
          alg = [fn |-> "calculate_source_connectivity_epochs",
                 n_times |-> n_times, samples_per_epoch |-> spe,
                 n_epochs |-> n_epochs, run |-> 1,
                 runs |-> [r \in 1..2 |-> NewRun]]

InEpochs(pc) ==
    /\ alg.fn = "calculate_source_connectivity_epochs"
    /\ alg.runs[alg.run].pc = pc

\* max_epochs = n_times // samples_per_epoch; n_epochs is cut down to it
ClampEpochs ==
    /\ InEpochs("clamp")
    /\ LET max_epochs == alg.n_times \div alg.samples_per_epoch
       IN alg' = [alg EXCEPT
                    !.runs[alg.run] =
                        [@ EXCEPT !.pc = "choose", !.max_epochs = max_epochs,
                                  !.n_epochs = Min(alg.n_epochs, max_epochs)]]
    /\ HostUntouched

\* epoch_starts = np.random.choice(max_epochs, size=n_epochs,
\*                                 replace=False) * samples_per_epoch
ChooseEpochs ==
    /\ InEpochs("choose")
    /\ \E s \in random_choice(alg.runs[alg.run].max_epochs,
                              alg.runs[alg.run].n_epochs) :
          alg' = [alg EXCEPT
                    !.runs[alg.run] =
                        [@ EXCEPT !.pc = "stack",
                                  !.epoch_starts =
                                      [i \in DOMAIN s |->
                                          s[i] * alg.samples_per_epoch]]]
    /\ HostUntouched

\* epoched_data = np.stack([roi_data[:, start : start + samples_per_epoch]
\*                          for start in epoch_starts]); np.stack refuses an
\* empty list
StackEpochs ==
    /\ InEpochs("stack")
    /\ LET r == alg.runs[alg.run]
       IN alg' = [alg EXCEPT
                    !.runs[alg.run] =
                        IF r.epoch_starts = <<>>
                        THEN [r EXCEPT !.pc = "raised", !.exc = "ValueError"]
                        ELSE [r EXCEPT
                                !.pc = "done",
                                !.epoched_data =
                                    [i \in DOMAIN r.epoch_starts |->
                                        [start |-> r.epoch_starts[i],
                                         stop |-> Min(r.epoch_starts[i]
                                                        + alg.samples_per_epoch,
                                                      alg.n_times)]]]]
    /\ HostUntouched

\* the function is called once more with the same arguments
RunAgain ==
    /\ alg.fn = "calculate_source_connectivity_epochs"
    /\ alg.run = 1
    /\ alg.runs[1].pc \in {"done", "raised"}
    /\ alg' = [alg EXCEPT !.run = 2]
    /\ HostUntouched

NextEpochs == ClampEpochs \/ ChooseEpochs \/ StackEpochs \/ RunAgain

SpecEpochs == InitEpochs /\ [][NextEpochs]_vars

\* the set of epochs of a run, by their first sample
EpochSet(r) == {r.epoch_starts[i] : i \in DOMAIN r.epoch_starts}

\* run k has come to its end, one way or the other
RunEnded(k) ==
    /\ alg.fn = "calculate_source_connectivity_epochs"
    /\ alg.runs[k].pc \in {"done", "raised"}

(***************************************************************************)
(* C27: calculate_source_connectivity uses min(n_epochs, floor(n_times /   *)
(* samples_per_epoch)) epochs; they are pairwise distinct, do not overlap, *)
(* start on multiples of samples_per_epoch and lie inside the data; and    *)
(* the function does not fail when the data is shorter than one epoch.     *)
(***************************************************************************)
C27_EpochsInsideData ==
    \A k \in 1..2 : RunEnded(k) =>
        LET r == alg.runs[k]
            spe == alg.samples_per_epoch
        IN /\ r.pc = "done"
           /\ Len(r.epoch_starts) = Min(alg.n_epochs, alg.n_times \div spe)
           /\ Len(r.epoched_data) = Len(r.epoch_starts)
           /\ \A i, j \in DOMAIN r.epoch_starts : i # j =>
                  \/ r.epoch_starts[i] + spe <= r.epoch_starts[j]
                  \/ r.epoch_starts[j] + spe <= r.epoch_starts[i]
           /\ \A i \in DOMAIN r.epoch_starts :
                  /\ r.epoch_starts[i] % spe = 0
                  /\ r.epoch_starts[i] >= 0
                  /\ r.epoch_starts[i] + spe <= alg.n_times
                  /\ r.epoched_data[i].stop - r.epoched_data[i].start = spe

(***************************************************************************)
(* C28: calculate_source_connectivity is deterministic: two runs on the    *)
(* same source estimate with the same parameters select the same set of    *)
(* epochs, also when the data holds more epochs than n_epochs.             *)
(***************************************************************************)
C28_SameEpochsEveryRun ==
    (RunEnded(1) /\ RunEnded(2)) =>
        /\ alg.runs[1].pc = alg.runs[2].pc
        /\ EpochSet(alg.runs[1]) = EpochSet(alg.runs[2])

(***************************************************************************)
(* C29: after a successful apply_zapline the record under step_zapline     *)
(* holds reduction_db = power_before_db - power_after_db whenever both     *)
(* power measurements succeeded, whatever the value of power_before (0 dB  *)
(* included), and lacks it only when one of the measurements failed.       *)
(***************************************************************************)
C29_ReductionRecorded ==
    (call.step = "apply_zapline" /\ call.result = "return"
        /\ metadata["step_zapline"] # <<>>) =>
        LET md == metadata["step_zapline"][1]
        IN /\ (md.has_power_before /\ md.has_power_after) =>
                 /\ md.has_reduction
                 /\ md.reduction_db = md.power_before_db - md.power_after_db
           /\ ~md.has_reduction =>
                 (~md.has_power_before \/ ~md.has_power_after)

====
